---- MODULE Spec2Model ----
(***************************************************************************)
(* KZG polynomial commitments for EIP-4844 blobs (crypto/kzg,              *)
(* crypto/agg_kzg, core/types of go-ethereum): a state-machine model.      *)
(*                                                                         *)
(* Scale.  The scalar field of BLS12-381 (255 bits) and the 4096-element   *)
(* blob do not fit a model checker, so the model keeps the structure of    *)
(* the code and shrinks the numbers:                                       *)
(*   - the scalar field is the prime field of order BLSModulus = 13, in    *)
(*     which 7 is a primitive root exactly as in the real field;           *)
(*   - a blob has FieldElementsPerBlob = 4 field elements;                 *)
(*   - a "byte" is a digit in base ByteBase, and every byte width of the   *)
(*     code is divided by 16: a field element takes 2 bytes (32), a        *)
(*     compressed G1 point 3 bytes (48), a hash 2 bytes (32), the          *)
(*     precompile input 12 bytes (192).  A two-byte field encoding ranges  *)
(*     over 0 .. ByteBase^2 - 1 > BLSModulus - 1, so non-canonical         *)
(*     encodings exist, as they do for 32 bytes and the real modulus.      *)
(*                                                                         *)
(* Groups.  G1, G2 and GT are cyclic of prime order BLSModulus.  A point   *)
(* is represented by its discrete logarithm: the G1 point a*GenG1 is the   *)
(* integer a, the G2 point b*GenG2 is the integer b, and the pairing of a  *)
(* and b is a*b mod BLSModulus (bilinear and non-degenerate).              *)
(*                                                                         *)
(* Hashes.  SHA-256 and Keccak-256 are two different fixed functions of    *)
(* the exact byte string they are given; they are modelled by two          *)
(* different deterministic mixing functions with HashBytes of output.      *)
(*                                                                         *)
(* Indices are 0-based as in the Go source: a Go slice of field elements,   *)
(* points, blobs or commitments of length n is a function with domain      *)
(* 0 .. n-1.  A byte string is a sequence: Go's b[i] is b[i+1] here, and   *)
(* Go's b[lo:hi] is SliceB(b, lo, hi).                                     *)
(***************************************************************************)
EXTENDS Integers, Sequences, FiniteSets, TLC

\* ------------------------------------------------------------------------
\* Program constants (scaled, see above)
\* ------------------------------------------------------------------------
FieldElementsPerBlob == 4
BLSModulus == 13
PrimitiveRoot == 7
FrBytes == 2
G1Bytes == 3
HashBytes == 2
PrecompileInputLength == 12
BlobCommitmentVersionKZG == 1
MaxBlobsPerBlock == 2
\* width in bytes of an SSZ offset (uint32); not scaled
OffsetBytes == 4

\* ------------------------------------------------------------------------
\* Bounds of the model
\* ------------------------------------------------------------------------
\* number of values a byte takes
ByteBase == 4

\* largest field element of a polynomial handed to an operation
MaxElem == 2
\* largest field element of a blob handed to the aggregation
MaxBlobElem == 1

Fr == 0 .. (BLSModulus - 1)
Byte == 0 .. (ByteBase - 1)

\* ------------------------------------------------------------------------
\* Go slices as 0-based functions, byte strings as sequences
\* ------------------------------------------------------------------------
Len0(a) == Cardinality(DOMAIN a)
Empty0 == [i \in {} |-> 0]

\* b[lo:hi]
SliceB(b, lo, hi) == SubSeq(b, lo + 1, hi)
\* n zero bytes
Zeroes(n) == [i \in 1 .. n |-> 0]
ByteStrings(n) == [1 .. n -> Byte]

RECURSIVE Pow(_, _)
Pow(b, e) == IF e = 0 THEN 1 ELSE b * Pow(b, e - 1)

\* concatenation of the byte strings parts[0], parts[1], ..., parts[n-1]
RECURSIVE ConcatAll(_, _)
ConcatAll(parts, n) ==
    IF n = 0 THEN <<>>
    ELSE ConcatAll(parts, n - 1) \o parts[n - 1]

\* ------------------------------------------------------------------------
\* Integers and bytes (math/big, encoding)
\* ------------------------------------------------------------------------
\* big.Int.SetBytes: the big-endian value of a byte string
RECURSIVE SetBytesUpto(_, _)
SetBytesUpto(b, n) ==
    IF n = 0 THEN 0 ELSE SetBytesUpto(b, n - 1) * ByteBase + b[n]
SetBytes(b) == SetBytesUpto(b, Len(b))

\* the n-byte big-endian encoding of v < ByteBase^n
BigEndian(v, n) == [i \in 1 .. n |-> (v \div Pow(ByteBase, n - i)) % ByteBase]

\* the n-byte little-endian encoding of v (codec.EncodingWriter.WriteUint64/32)
LittleEndian(v, n) == [i \in 1 .. n |-> (v \div Pow(ByteBase, i - 1)) % ByteBase]

\* the loop  for i := 0; i < 16; i++ { b[31-i], b[i] = b[i], b[31-i] }
ReverseBytes(b) == [i \in 1 .. Len(b) |-> b[Len(b) + 1 - i]]

\* ------------------------------------------------------------------------
\* bls.Fr: the scalar field (github.com/protolambda/go-kzg/bls)
\* ------------------------------------------------------------------------
AddModFr(a, b) == (a + b) % BLSModulus
SubModFr(a, b) == (a - b) % BLSModulus
MulModFr(a, b) == (a * b) % BLSModulus

\* big.Int.Exp(b, e, m)
RECURSIVE ExpMod(_, _, _)
ExpMod(b, e, m) ==
    IF e = 0 THEN 1 % m
    ELSE IF e % 2 = 1 THEN (b * ExpMod(b, e - 1, m)) % m
    ELSE LET h == ExpMod(b, e \div 2, m) IN (h * h) % m

\* big.Int.ModInverse(g, n) for prime n and g not a multiple of n
\* (a negative g is first reduced modulo n)
ModInverse(g, n) == ExpMod(g % n, n - 2, n)

\* the field inverse; the inverse of zero is zero
InvModFr(a) == IF a % BLSModulus = 0 THEN 0 ELSE ModInverse(a, BLSModulus)
DivModFr(a, b) == MulModFr(a, InvModFr(b))

\* bls.FrFrom32: decode 32 little-endian bytes; ok only if the value is < modulus
FrFrom32BigEndian(b) ==
    LET v == SetBytes(b)
    IN  IF v < BLSModulus THEN [ok |-> TRUE, fr |-> v] ELSE [ok |-> FALSE, fr |-> 0]
FrFrom32Mod(b) ==
    LET v == SetBytes(ReverseBytes(b)) IN [ok |-> TRUE, fr |-> v % BLSModulus]
FrFrom32(b) ==
    LET v == SetBytes(ReverseBytes(b))
    IN  IF v < BLSModulus THEN [ok |-> TRUE, fr |-> v] ELSE [ok |-> FALSE, fr |-> 0]

\* bls.FrTo32: the 32-byte little-endian encoding of a field element
FrTo32(fr) == LittleEndian(fr, FrBytes)

\* ------------------------------------------------------------------------
\* G1, G2 and the pairing (github.com/protolambda/go-kzg/bls)
\* ------------------------------------------------------------------------
GenG1 == 1 % BLSModulus
GenG2 == 1 % BLSModulus
MulG1(p, a) == (p * a) % BLSModulus
MulG2(p, a) == (p * a) % BLSModulus
SubG1(p, r) == (p - r) % BLSModulus
SubG2(p, r) == (p - r) % BLSModulus
AddG1(p, r) == (p + r) % BLSModulus

\* bls.LinCombG1(points, scalars): sum_i scalars[i] * points[i]; the two
\* slices have the same length (the library panics otherwise, see
\* LinCombG1Panics)
RECURSIVE LinCombG1Upto(_, _, _)
LinCombG1Upto(points, scalars, n) ==
    IF n = 0 THEN 0
    ELSE AddG1(LinCombG1Upto(points, scalars, n - 1),
               MulG1(points[n - 1], scalars[n - 1]))
LinCombG1(points, scalars) == LinCombG1Upto(points, scalars, Len0(points))
LinCombG1Panics(points, scalars) == Len0(points) # Len0(scalars)

\* e(a, b) in GT
Pairing(a, b) == (a * b) % BLSModulus
\* bls.PairingsVerify(a1, a2, b1, b2): e(a1, a2) = e(b1, b2)
PairingsVerify(a1, a2, b1, b2) == Pairing(a1, a2) = Pairing(b1, b2)

\* Compressed G1 encoding: G1Bytes big-endian bytes whose top byte carries
\* the compression flag; the all-zero string is not the encoding of a point.
CompressionFlag == 2 * Pow(ByteBase, G1Bytes - 1)
ToCompressedG1(p) == BigEndian(CompressionFlag + p, G1Bytes)
\* bls.FromCompressedG1: (point, err)
FromCompressedG1(b) ==
    LET v == SetBytes(b)
    IN  IF Len(b) = G1Bytes /\ v >= CompressionFlag /\ v < CompressionFlag + BLSModulus
        THEN [err |-> "nil", point |-> v - CompressionFlag]
        ELSE [err |-> "bad point", point |-> 0]

\* ------------------------------------------------------------------------
\* Hash functions
\* ------------------------------------------------------------------------
HashSpace == Pow(ByteBase, HashBytes)
RECURSIVE MixUpto(_, _, _, _)
MixUpto(b, n, mult, seed) ==
    IF n = 0 THEN seed % HashSpace
    ELSE (MixUpto(b, n - 1, mult, seed) * mult + b[n] + n) % HashSpace
\* sha256.Sum256
Sha256(b) == BigEndian(MixUpto(b, Len(b), 3, 5), HashBytes)
\* crypto.Keccak256Hash
Keccak256Hash(b) == BigEndian(MixUpto(b, Len(b), 7, 2), HashBytes)

\* ------------------------------------------------------------------------
\* State
\* ------------------------------------------------------------------------
VARIABLES
    kzgSetupG2,        \* KZG CRS for G2
    kzgSetupLagrange,  \* KZG CRS for commitment computation
    KzgSetupG1,        \* KZG CRS for G1
    Domain,            \* the evaluation domain
    pc,                \* "idle": no call in progress; otherwise the last step taken
    call,              \* the operation called last and its arguments
    ret                \* what it returned

vars == <<kzgSetupG2, kzgSetupLagrange, KzgSetupG1, Domain, pc, call, ret>>
setup == <<kzgSetupG2, kzgSetupLagrange, KzgSetupG1, Domain>>

\* ------------------------------------------------------------------------
\* Trusted setup and domain (package initialisation)
\* ------------------------------------------------------------------------
\* the secrets the embedded trusted setup may have been generated from
SetupSecrets == {3, 6}
\* number of G2 points of the embedded setup
SetupG2Len == 3

\* value at x of the Lagrange basis polynomial of node j over the N-th roots
\* of unity generated by w
RECURSIVE LagrangeProd(_, _, _, _)
LagrangeProd(w, j, x, m) ==
    IF m = 0 THEN 1
    ELSE LET rest == LagrangeProd(w, j, x, m - 1)
             wm   == ExpMod(w, m - 1, BLSModulus)
             wj   == ExpMod(w, j, BLSModulus)
         IN  IF m - 1 = j THEN rest
             ELSE MulModFr(rest, DivModFr(SubModFr(x, wm), SubModFr(wj, wm)))
LagrangeAt(w, j, x) == LagrangeProd(w, j, x, FieldElementsPerBlob)

\* bits.Len64
RECURSIVE Len64(_)
Len64(x) == IF x = 0 THEN 0 ELSE 1 + Len64(x \div 2)

\* the low `m` bits of n, reversed
RECURSIVE ReverseLow(_, _)
ReverseLow(n, m) ==
    IF m = 0 THEN 0
    ELSE (n % 2) * Pow(2, m - 1) + ReverseLow(n \div 2, m - 1)

\* a & b
RECURSIVE BitAnd(_, _)
BitAnd(a, b) ==
    IF a = 0 \/ b = 0 THEN 0
    ELSE (a % 2) * (b % 2) + 2 * BitAnd(a \div 2, b \div 2)

isPowerOfTwo(value) == value > 0 /\ BitAnd(value, value - 1) = 0

\* width of a machine word (uint64), scaled
WordBits == 8
\* bits.Reverse64
Reverse64(n) == ReverseLow(n, WordBits)
\* x >> shift on a word: a shift by the width or more gives 0
ShiftRight(x, shift) == IF shift >= WordBits THEN 0 ELSE x \div Pow(2, shift)

\* reverseBits(n, order) = bits.Reverse64(n) >> (65 - bits.Len64(order)); it
\* panics when order is no power of two
reverseBitsPanics(order) == ~isPowerOfTwo(order)
reverseBitsNoReverse(n, order) == n % order
reverseBits(n, order) == ShiftRight(Reverse64(n), WordBits + 1 - Len64(order))

\* bitReversalPermutation(l): reverseBits is called once for every index of
\* l, so the empty table is copied without a call
bitReversalPermutationPanics(l) == Len0(l) > 0 /\ reverseBitsPanics(Len0(l))
\* variant of bitReversalPermutation: the table is copied in its order
bitReversalPermutationCopy(l) == l
bitReversalPermutation(l) ==
    [i \in DOMAIN l |-> l[reverseBits(i, Len0(l))]]

\* The embedded trusted setup (KZGSetupStr) generated from secret s:
\* monomial G1 and G2 powers of s, and the Lagrange basis over the roots of
\* unity of 7^((q-1)/N), listed in bit-reversed index order.
KZGSetupStr(s) ==
    LET w == ExpMod(PrimitiveRoot, (BLSModulus - 1) \div FieldElementsPerBlob, BLSModulus)
    IN  [SetupG1 |-> [i \in 0 .. (FieldElementsPerBlob - 1) |-> ExpMod(s, i, BLSModulus)],
         SetupG2 |-> [i \in 0 .. (SetupG2Len - 1) |-> ExpMod(s, i, BLSModulus)],
         SetupLagrange |->
            [i \in 0 .. (FieldElementsPerBlob - 1) |->
                LagrangeAt(w, ReverseLow(i, Len64(FieldElementsPerBlob) - 1), s)]]

\* variant of initDomain: the primitive root is taken as the root of unity
initDomainNoExp ==
    [i \in 0 .. (FieldElementsPerBlob - 1) |-> ExpMod(PrimitiveRoot, i, BLSModulus)]

\* initDomain
initDomain ==
    LET width       == FieldElementsPerBlob
        exp         == (BLSModulus - (-1)) \div width
        rootOfUnity == ExpMod(PrimitiveRoot, exp, BLSModulus)
    IN  [i \in 0 .. (FieldElementsPerBlob - 1) |-> ExpMod(rootOfUnity, i, BLSModulus)]

\* the domain as field elements (kzg_new.go reads DomainFr)
DomainFr == [i \in DOMAIN Domain |-> Domain[i] % BLSModulus]

\* func init()
Init ==
    \E s \in SetupSecrets :
        LET parsedSetup == KZGSetupStr(s)
        IN  /\ kzgSetupG2 = parsedSetup.SetupG2
            /\ kzgSetupLagrange = bitReversalPermutation(parsedSetup.SetupLagrange)
            /\ KzgSetupG1 = parsedSetup.SetupG1
            /\ Domain = initDomain
            /\ pc = "idle"
            /\ call = [op |-> "none"]
            /\ ret = [err |-> "nil"]

\* ------------------------------------------------------------------------
\* util.go
\* ------------------------------------------------------------------------
\* frToBig: Fr -> 32 little-endian bytes -> reversed -> big.Int.SetBytes
frToBig(val) == SetBytes(ReverseBytes(FrTo32(val)))

\* BigToFr: big.Int -> big-endian bytes, right-aligned in 32 -> reversed -> FrFrom32
BigToFr(in) == FrFrom32(ReverseBytes(BigEndian(in, FrBytes))).fr

\* blsModInv: out is written only when x is non-zero; the callers pass a
\* fresh (zero) out
blsModInv(x) == IF x # 0 THEN ModInverse(x, BLSModulus) ELSE 0

\* blsDiv
blsDiv(a, b) == (a * blsModInv(b)) % BLSModulus

\* the loop of EvaluatePolyInEvaluationForm, over i < n
RECURSIVE EvalSum(_, _, _)
EvalSum(poly, xB, n) ==
    IF n = 0 THEN 0
    ELSE LET i     == n - 1
             fi    == frToBig(poly[i])
             num   == fi * Domain[i]
             denom == xB - Domain[i]
         IN  EvalSum(poly, xB, i) + blsDiv(num, denom)

\* EvaluatePolyInEvaluationForm (util.go): the barycentric formula
EvaluatePolyInEvaluationForm(poly, x) ==
    IF Len0(poly) # FieldElementsPerBlob THEN [panic |-> TRUE, y |-> 0]
    ELSE LET width        == FieldElementsPerBlob
             inverseWidth == blsModInv(width)
             xB           == frToBig(x)
             y            == EvalSum(poly, xB, FieldElementsPerBlob)
             powB         == ExpMod(xB, width, BLSModulus) - 1
         IN  [panic |-> FALSE, y |-> (y * (powB * inverseWidth)) % BLSModulus]

\* ------------------------------------------------------------------------
\* kzg.go: proofs over the big.Int arithmetic of util.go
\* ------------------------------------------------------------------------
\* BlobToKzg: the commitment of a polynomial in evaluation form, an MSM
\* against the Lagrange setup
BlobToKzg(eval) == LinCombG1(kzgSetupLagrange, eval)

\* ComputeProof(eval, z): (proof point, err); proofNil: the point returned
\* is the nil pointer
ComputeProofNoDomainCheck(eval, z) ==
    IF Len0(eval) # FieldElementsPerBlob
    THEN [err |-> "invalid eval polynomial for proof", proofNil |-> TRUE, proof |-> 0]
    ELSE LET zB == frToBig(z)
             yB == frToBig(EvaluatePolyInEvaluationForm(eval, z).y)
             quotientPoly ==
                [i \in 0 .. (FieldElementsPerBlob - 1) |->
                    BigToFr(blsDiv((frToBig(eval[i]) - yB) % BLSModulus,
                                   (Domain[i] - zB) % BLSModulus))]
         IN  [err |-> "nil", proofNil |-> FALSE,
              proof |-> LinCombG1(kzgSetupLagrange, quotientPoly)]
ComputeProof(eval, z) ==
    IF Len0(eval) # FieldElementsPerBlob
    THEN [err |-> "invalid eval polynomial for proof", proofNil |-> TRUE, proof |-> 0]
    ELSE LET poly == [i \in 0 .. (FieldElementsPerBlob - 1) |-> frToBig(eval[i])]
             zB   == frToBig(z)
             y    == EvaluatePolyInEvaluationForm(eval, z).y
             yB   == frToBig(y)
             polyShifted ==
                [i \in 0 .. (FieldElementsPerBlob - 1) |-> (poly[i] - yB) % BLSModulus]
         IN  IF \E i \in 0 .. (FieldElementsPerBlob - 1) : Domain[i] = zB
             THEN [err |-> "inavlid z challenge", proofNil |-> TRUE, proof |-> 0]
             ELSE LET denomPoly ==
                        [i \in 0 .. (FieldElementsPerBlob - 1) |->
                            (Domain[i] - zB) % BLSModulus]
                      quotientPoly ==
                        [i \in 0 .. (FieldElementsPerBlob - 1) |->
                            BigToFr(blsDiv(polyShifted[i], denomPoly[i]))]
                  IN  [err |-> "nil", proofNil |-> FALSE,
                       proof |-> LinCombG1(kzgSetupLagrange, quotientPoly)]

\* ------------------------------------------------------------------------
\* kzg_new.go: the EIP-4844 functions over bls.Fr
\* ------------------------------------------------------------------------
\* VerifyKZGProofFromPoints
VerifyKZGProofFromPointsIndex0(polynomialKZG, z, y, kzgProof) ==
    LET zG2     == MulG2(GenG2, z)
        yG1     == MulG1(GenG1, y)
        xMinusZ == SubG2(kzgSetupG2[0], zG2)
        pMinusY == SubG1(polynomialKZG, yG1)
    IN  PairingsVerify(pMinusY, GenG2, kzgProof, xMinusZ)
VerifyKZGProofFromPoints(polynomialKZG, z, y, kzgProof) ==
    LET zG2     == MulG2(GenG2, z)
        yG1     == MulG1(GenG1, y)
        xMinusZ == SubG2(kzgSetupG2[1], zG2)
        pMinusY == SubG1(polynomialKZG, yG1)
    IN  PairingsVerify(pMinusY, GenG2, kzgProof, xMinusZ)

\* VerifyKzgProof of kzg.go, called by agg_kzg and the benchmarks: the
\* pairing check of section 4.5.2
VerifyKzgProof(commitment, z, y, proof) ==
    PairingsVerify(SubG1(commitment, MulG1(GenG1, y)), GenG2,
                   proof, SubG2(kzgSetupG2[1], MulG2(GenG2, z)))

\* VerifyKZGProof (kzg_new.go): (ok, err)
VerifyKZGProof(polynomialKZG, z, y, kzgProof) ==
    LET c == FromCompressedG1(polynomialKZG)
        p == FromCompressedG1(kzgProof)
    IN  IF c.err # "nil" THEN [ok |-> FALSE, err |-> "failed to decode polynomialKZG"]
        ELSE IF p.err # "nil" THEN [ok |-> FALSE, err |-> "failed to decode kzgProof"]
        ELSE [ok |-> VerifyKZGProofFromPoints(c.point, z, y, p.point), err |-> "nil"]

\* BlobToKZGCommitment
BlobToKZGCommitment(eval) == ToCompressedG1(LinCombG1(kzgSetupLagrange, eval))

\* the loop of bls.EvaluatePolyInEvaluationForm, over i < n
RECURSIVE BlsEvalSum(_, _, _)
BlsEvalSum(poly, x, n) ==
    IF n = 0 THEN 0
    ELSE AddModFr(BlsEvalSum(poly, x, n - 1),
                  DivModFr(MulModFr(poly[n - 1], DomainFr[n - 1]),
                           SubModFr(x, DomainFr[n - 1])))

\* EvaluatePolynomialInEvaluationForm: bls.EvaluatePolyInEvaluationForm over
\* DomainFr, the barycentric formula in field arithmetic
EvaluatePolynomialInEvaluationForm(poly, x) ==
    MulModFr(BlsEvalSum(poly, x, Len0(poly)),
             MulModFr(SubModFr(ExpMod(x, Len0(poly), BLSModulus), 1),
                      InvModFr(Len0(poly))))

\* ComputeKZGProof(polynomial, z): (proof bytes, err)
ComputeKZGProofNoShift(polynomial, z) ==
    IF Len0(polynomial) # Len0(Domain)
    THEN [err |-> "polynomial has invalid length", proof |-> Zeroes(G1Bytes)]
    ELSE IF \E i \in DOMAIN polynomial : DomainFr[i] = z
    THEN [err |-> "invalid z challenge", proof |-> Zeroes(G1Bytes)]
    ELSE [err |-> "nil",
          proof |-> ToCompressedG1(LinCombG1(kzgSetupLagrange,
                        [i \in DOMAIN polynomial |->
                            DivModFr(polynomial[i], SubModFr(DomainFr[i], z))]))]
ComputeKZGProof(polynomial, z) ==
    LET y == EvaluatePolynomialInEvaluationForm(polynomial, z)
        polynomialShifted == [i \in DOMAIN polynomial |-> SubModFr(polynomial[i], y)]
    IN  IF Len0(polynomial) # Len0(Domain)
        THEN [err |-> "polynomial has invalid length", proof |-> Zeroes(G1Bytes)]
        ELSE IF \E i \in DOMAIN polynomial : DomainFr[i] = z
        THEN [err |-> "invalid z challenge", proof |-> Zeroes(G1Bytes)]
        ELSE LET denominatorPoly ==
                    [i \in DOMAIN polynomial |-> SubModFr(DomainFr[i], z)]
                 quotientPolynomial ==
                    [i \in DOMAIN polynomial |->
                        DivModFr(polynomialShifted[i], denominatorPoly[i])]
                 rG1 == LinCombG1(kzgSetupLagrange, quotientPolynomial)
             IN  [err |-> "nil", proof |-> ToCompressedG1(rG1)]

\* ------------------------------------------------------------------------
\* Versioned hashes and the point-evaluation precompile
\* ------------------------------------------------------------------------
\* h[0] = params.BlobCommitmentVersionKZG
SetVersion(h) == [h EXCEPT ![1] = BlobCommitmentVersionKZG]

\* KZGToVersionedHash (kzg_bytes.go)
KZGToVersionedHash(kzg) == SetVersion(Sha256(kzg))
\* KZGToVersionedHash (kzg_new.go)
KZGToVersionedHashNew(kzg) == SetVersion(Keccak256Hash(kzg))
\* KZGCommitment.ComputeVersionedHash (core/types)
ComputeVersionedHash(kzg) == SetVersion(Keccak256Hash(kzg))

\* a precompile result: (output, err); outNil: the output is the nil slice
\* cause: the error that err wraps ("nil" when err wraps none)
Failure(err, cause) == [outNil |-> TRUE, out |-> <<>>, err |-> err, cause |-> cause]
Success == [outNil |-> FALSE, out |-> <<>>, err |-> "nil", cause |-> "nil"]

\* VerifyKZGProof (kzg_bytes.go), on the bytes of z and y: (ok, err)
BytesVerifyKZGProofBigEndian(polynomialKZG, z, y, kzgProof) ==
    LET zFr == FrFrom32BigEndian(z)
        yFr == FrFrom32BigEndian(y)
        c   == FromCompressedG1(polynomialKZG)
        p   == FromCompressedG1(kzgProof)
    IN  IF ~zFr.ok THEN [ok |-> FALSE, err |-> "invalid evaluation point"]
        ELSE IF ~yFr.ok THEN [ok |-> FALSE, err |-> "invalid expected output"]
        ELSE IF c.err # "nil" THEN [ok |-> FALSE, err |-> "failed to decode polynomialKZG"]
        ELSE IF p.err # "nil" THEN [ok |-> FALSE, err |-> "failed to decode kzgProof"]
        ELSE [ok |-> VerifyKZGProofFromPoints(c.point, zFr.fr, yFr.fr, p.point),
              err |-> "nil"]
BytesVerifyKZGProof(polynomialKZG, z, y, kzgProof) ==
    LET zFr == FrFrom32(z)
        yFr == FrFrom32(y)
        c   == FromCompressedG1(polynomialKZG)
        p   == FromCompressedG1(kzgProof)
    IN  IF ~zFr.ok THEN [ok |-> FALSE, err |-> "invalid evaluation point"]
        ELSE IF ~yFr.ok THEN [ok |-> FALSE, err |-> "invalid expected output"]
        ELSE IF c.err # "nil" THEN [ok |-> FALSE, err |-> "failed to decode polynomialKZG"]
        ELSE IF p.err # "nil" THEN [ok |-> FALSE, err |-> "failed to decode kzgProof"]
        ELSE [ok |-> VerifyKZGProofFromPoints(c.point, zFr.fr, yFr.fr, p.point),
              err |-> "nil"]

\* PointEvaluationPrecompile (kzg_bytes.go)
PointEvaluationPrecompileAtLeast(input) ==
    IF Len(input) < PrecompileInputLength THEN Failure("invalid input length", "nil")
    ELSE LET versionedHash == SliceB(input, 0, 2)
             x == SliceB(input, 2, 4)
             y == SliceB(input, 4, 6)
             dataKZG == SliceB(input, 6, 9)
             quotientKZG == SliceB(input, 9, PrecompileInputLength)
         IN  IF KZGToVersionedHash(dataKZG) # versionedHash
             THEN Failure("mismatched versioned hash", "nil")
             ELSE LET v == BytesVerifyKZGProof(dataKZG, x, y, quotientKZG)
                  IN  IF v.err # "nil" THEN Failure("verify_kzg_proof error", v.err)
                      ELSE IF ~v.ok THEN Failure("invalid kzg proof", "nil")
                      ELSE Success
PointEvaluationPrecompile(input) ==
    IF Len(input) # PrecompileInputLength THEN Failure("invalid input length", "nil")
    ELSE LET versionedHash == SliceB(input, 0, 2)
             x == SliceB(input, 2, 4)
             y == SliceB(input, 4, 6)
             dataKZG == SliceB(input, 6, 9)
             quotientKZG == SliceB(input, 9, PrecompileInputLength)
         IN  IF KZGToVersionedHash(dataKZG) # versionedHash
             THEN Failure("mismatched versioned hash", "nil")
             ELSE LET v == BytesVerifyKZGProof(dataKZG, x, y, quotientKZG)
                  IN  IF v.err # "nil" THEN Failure("verify_kzg_proof error", v.err)
                      ELSE IF ~v.ok THEN Failure("invalid kzg proof", "nil")
                      ELSE Success

\* PointEvaluationPrecompile (kzg_new.go)
PointEvaluationPrecompileNew(input) ==
    IF Len(input) # PrecompileInputLength THEN Failure("invalid input length", "nil")
    ELSE LET versionedHash == SliceB(input, 0, 2)
             x == SliceB(input, 2, 4)
             y == SliceB(input, 4, 6)
             xFr == FrFrom32(x)
             yFr == FrFrom32(y)
             dataKZG == SliceB(input, 6, 9)
             quotientKZG == SliceB(input, 9, PrecompileInputLength)
         IN  IF ~xFr.ok THEN Failure("invalid evaluation point", "nil")
             ELSE IF ~yFr.ok THEN Failure("invalid expected output", "nil")
             ELSE IF KZGToVersionedHashNew(dataKZG) # versionedHash
             THEN Failure("mismatched versioned hash", "nil")
             ELSE LET v == VerifyKZGProof(dataKZG, xFr.fr, yFr.fr, quotientKZG)
                  IN  IF v.err # "nil" THEN Failure("verify_kzg_proof error", v.err)
                      ELSE IF ~v.ok THEN Failure("failed to verify kzg proof", "nil")
                      ELSE Success

\* ------------------------------------------------------------------------
\* agg_kzg (ssz_structures.go): blobs as bytes and the aggregated proof
\* ------------------------------------------------------------------------
\* A Blob is FieldElementsPerBlob chunks of FrBytes bytes; Blobs and
\* []KZGCommitment are slices.

\* the results that stand for a Go panic (the call does not return)
IsPanic(err) ==
    err \in {"panic: nil pointer dereference", "panic: LinCombG1 length mismatch",
             "panic: index out of range"}

\* hashToFr: the digest with its bytes reversed, read by big.Int.SetBytes,
\* reduced modulo BLSModulus
hashToFr(h) == BigToFr(SetBytes(ReverseBytes(h)) % BLSModulus)

\* Blob.Serialize: the chunks in order
BlobSerialize(blob) == ConcatAll(blob, Len0(blob))

\* Blobs.Serialize: a list of fixed-size elements, written one after another
BlobsSerialize(blobs) ==
    ConcatAll([i \in DOMAIN blobs |-> BlobSerialize(blobs[i])], Len0(blobs))

\* blobKzgs.Serialize
blobKzgsSerialize(li) == ConcatAll(li, Len0(li))

\* BlobsAndCommitments.Serialize: an SSZ container of two variable-size
\* fields: their two offsets, then the blobs, then the commitments
BlobsAndCommitmentsSerialize(blobs, kzgs) ==
    LET fixedLen == 2 * OffsetBytes
        blobsLen == Len0(blobs) * FieldElementsPerBlob * FrBytes
    IN  LittleEndian(fixedLen, OffsetBytes)
            \o LittleEndian(fixedLen + blobsLen, OffsetBytes)
            \o BlobsSerialize(blobs)
            \o blobKzgsSerialize(kzgs)

\* PolynomialAndCommitment.Serialize: an SSZ container of two fixed-size
\* fields, the blob then the commitment
PolynomialAndCommitmentSerialize(b, c) == BlobSerialize(b) \o c

\* sszHash: SHA-256 of the raw serialization
sszHash(serialized) == Sha256(serialized)

\* Blob.Parse: (out, err)
BlobParseReducing(blob) ==
    [err |-> "nil", out |-> [i \in DOMAIN blob |-> FrFrom32Mod(blob[i]).fr]]
BlobParse(blob) ==
    IF \E i \in DOMAIN blob : ~FrFrom32(blob[i]).ok
    THEN [err |-> "internal error commitments", out |-> Empty0]
    ELSE [err |-> "nil", out |-> [i \in DOMAIN blob |-> FrFrom32(blob[i]).fr]]

\* Blobs.Parse: (out, err)
BlobsParse(blobs) ==
    IF \E i \in DOMAIN blobs : BlobParse(blobs[i]).err # "nil"
    THEN [err |-> "failed to parse blob", out |-> Empty0]
    ELSE [err |-> "nil", out |-> [i \in DOMAIN blobs |-> BlobParse(blobs[i]).out]]

\* computePowers(r, n): 1, r, r^2, ..., r^(n-1)
RECURSIVE PowerAt(_, _)
PowerAt(r, i) == IF i = 0 THEN 1 % BLSModulus ELSE MulModFr(PowerAt(r, i - 1), r)
computePowers(r, n) == [i \in 0 .. (n - 1) |-> PowerAt(r, i)]

\* MatrixLinComb(vectors, scalars), for len(vectors) > 0:
\* r[j] = sum_i vectors[i][j] * scalars[i]
RECURSIVE MatrixLinCombAt(_, _, _, _)
MatrixLinCombAt(vectors, scalars, j, n) ==
    IF n = 0 THEN 0
    ELSE AddModFr(MatrixLinCombAt(vectors, scalars, j, n - 1),
                  MulModFr(vectors[n - 1][j], scalars[n - 1]))
MatrixLinCombNoScalars(vectors, scalars) ==
    [j \in DOMAIN vectors[0] |->
        MatrixLinCombAt(vectors, [i \in DOMAIN scalars |-> 1], j, Len0(vectors))]
\* MatrixLinComb panics where it indexes out of range: vectors[0] of an empty
\* list, scalars[i] of a shorter scalar list, vectors[i][j] of a shorter row
MatrixLinCombPanics(vectors, scalars) ==
    \/ Len0(vectors) = 0
    \/ Len0(scalars) < Len0(vectors)
    \/ \E i \in DOMAIN vectors : Len0(vectors[i]) < Len0(vectors[0])
MatrixLinComb(vectors, scalars) ==
    [j \in DOMAIN vectors[0] |-> MatrixLinCombAt(vectors, scalars, j, Len0(vectors))]

\* the challenge r of computeAggregateKzgCommitment: the hash of the
\* serialized BlobsAndCommitments container
ChallengeR(blobs, commitments) ==
    LET sum == sszHash(BlobsAndCommitmentsSerialize(blobs, commitments))
    IN  hashToFr(sum)

\* computeAggregateKzgCommitment(blobs, commitments):
\* (aggregatePoly, aggregateCommitmentG1, err)
computeAggregateKzgCommitment(blobs, commitments) ==
    LET r      == ChallengeR(blobs, commitments)
        powers == computePowers(r, Len0(blobs))
        none   == [poly |-> Empty0, commitment |-> 0]
    IN  \* p, _ := commitments[i].Point(); bls.CopyG1(&commitmentsG1[i], p)
        IF \E i \in DOMAIN commitments : FromCompressedG1(commitments[i]).err # "nil"
        THEN [err |-> "panic: nil pointer dereference"] @@ none
        ELSE IF LinCombG1Panics(commitments, powers)
        THEN [err |-> "panic: LinCombG1 length mismatch"] @@ none
        ELSE LET commitmentsG1 ==
                    [i \in DOMAIN commitments |-> FromCompressedG1(commitments[i]).point]
                 aggregateCommitmentG1 == LinCombG1(commitmentsG1, powers)
                 polys == BlobsParse(blobs)
             IN  IF polys.err # "nil" THEN [err |-> polys.err] @@ none
                 ELSE IF Len0(polys.out) = 0
                 THEN [err |-> "panic: index out of range"] @@ none
                 ELSE [err |-> "nil",
                       poly |-> MatrixLinComb(polys.out, powers),
                       commitment |-> aggregateCommitmentG1]

\* ComputeCommitment(blob): (commitment, err)
ComputeCommitment(blob) ==
    IF \E i \in DOMAIN blob : ~FrFrom32(blob[i]).ok
    THEN [err |-> "blob is not canonical", commitment |-> Zeroes(G1Bytes)]
    ELSE LET frs == [i \in DOMAIN blob |-> FrFrom32(blob[i]).fr]
         IN  [err |-> "nil", commitment |-> ToCompressedG1(BlobToKzg(frs))]

\* ComputeCommitments(blobs): (commitments, err)
ComputeCommitments(blobs) ==
    IF \E i \in DOMAIN blobs : ComputeCommitment(blobs[i]).err # "nil"
    THEN [err |-> "blob is not canonical", commitments |-> Empty0]
    ELSE [err |-> "nil",
          commitments |-> [i \in DOMAIN blobs |-> ComputeCommitment(blobs[i]).commitment]]

\* the evaluation point both ComputeAggregateKZGProof and
\* VerifyAggregateKZGProof derive from the aggregate: the hash of the
\* aggregated blob and commitment
AggregateChallenge(aggregatePoly, aggregateCommitmentG1) ==
    LET aggregateCommitment == ToCompressedG1(aggregateCommitmentG1)
        aggregateBlob == [i \in DOMAIN aggregatePoly |-> FrTo32(aggregatePoly[i])]
    IN  hashToFr(sszHash(PolynomialAndCommitmentSerialize(aggregateBlob,
                                                          aggregateCommitment)))

\* ComputeAggregateKZGProof(blobs, commitments): (proof, err)
AggComputeAggregateKZGProof(blobs, commitments) ==
    IF Len0(blobs) = 0 THEN [err |-> "nil", proof |-> Zeroes(G1Bytes)]
    ELSE LET agg == computeAggregateKzgCommitment(blobs, commitments)
         IN  IF agg.err # "nil" THEN [err |-> agg.err, proof |-> Zeroes(G1Bytes)]
             ELSE LET z == AggregateChallenge(agg.poly, agg.commitment)
                      aggProofG1 == ComputeProof(agg.poly, z)
                  IN  IF aggProofG1.err # "nil"
                      THEN [err |-> aggProofG1.err, proof |-> Zeroes(G1Bytes)]
                      ELSE [err |-> "nil", proof |-> ToCompressedG1(aggProofG1.proof)]

\* ComputeAggregateKZGProofAndCommitments(blobs): (proof, commitments, err)
ComputeAggregateKZGProofAndCommitments(blobs) ==
    LET c == ComputeCommitments(blobs)
    IN  IF c.err # "nil"
        THEN [err |-> c.err, proof |-> Zeroes(G1Bytes), commitments |-> Empty0]
        ELSE LET aggregatedProof == AggComputeAggregateKZGProof(blobs, c.commitments)
             IN  IF aggregatedProof.err # "nil"
                 THEN [err |-> aggregatedProof.err, proof |-> Zeroes(G1Bytes),
                       commitments |-> Empty0]
                 ELSE [err |-> "nil", proof |-> aggregatedProof.proof,
                       commitments |-> c.commitments]

\* VerifyAggregateKZGProof(blobs, blobKzgs, aggregatedProof): err
AggVerifyAggregateKZGProof(blobs, blobKzgs, aggregatedProof) ==
    LET agg == computeAggregateKzgCommitment(blobs, blobKzgs)
    IN  IF agg.err # "nil"
        THEN IF IsPanic(agg.err) THEN agg.err
             ELSE "failed to compute aggregate commitment"
        ELSE LET z == AggregateChallenge(agg.poly, agg.commitment)
                 y == EvaluatePolyInEvaluationForm(agg.poly, z).y
                 aggregateProofG1 == FromCompressedG1(aggregatedProof)
             IN  IF aggregateProofG1.err # "nil" THEN "aggregate proof parse error"
                 ELSE IF ~VerifyKzgProof(agg.commitment, z, y, aggregateProofG1.point)
                 THEN "failed to verify kzg"
                 ELSE "nil"

\* ------------------------------------------------------------------------
\* Calls: single-point proofs
\* ------------------------------------------------------------------------
\* the polynomials (in evaluation form) handed to the operations
Polys == [0 .. (FieldElementsPerBlob - 1) -> 0 .. MaxElem]

\* a caller finished with the result of its call
Return ==
    /\ pc # "idle"
    /\ pc' = "idle"
    /\ call' = [op |-> "none"]
    /\ ret' = [err |-> "nil"]
    /\ UNCHANGED setup

\* kzg.EvaluatePolyInEvaluationForm(&y, poly, x)
EvaluateCall ==
    /\ pc = "idle"
    /\ \E poly \in Polys, x \in Fr :
        /\ call' = [op |-> "EvaluatePolyInEvaluationForm", poly |-> poly, x |-> x]
        /\ ret' = EvaluatePolyInEvaluationForm(poly, x)
    /\ pc' = "called"
    /\ UNCHANGED setup

\* kzg.ComputeProof(eval, z)
ComputeProofCall ==
    /\ pc = "idle"
    /\ \E eval \in Polys, z \in Fr :
        /\ call' = [op |-> "ComputeProof", poly |-> eval, z |-> z]
        /\ ret' = ComputeProof(eval, z)
    /\ pc' = "called"
    /\ UNCHANGED setup

\* the proof just computed is verified against the commitment of the same
\* polynomial and its value at z:
\* kzg.VerifyKzgProof(kzg.BlobToKzg(eval), z, y, proof)
VerifyKzgProofCall ==
    /\ pc = "called" /\ call.op = "ComputeProof" /\ ret.err = "nil"
    /\ call' = [op |-> "VerifyKzgProof", poly |-> call.poly,
                commitment |-> BlobToKzg(call.poly), z |-> call.z,
                y |-> EvaluatePolyInEvaluationForm(call.poly, call.z).y,
                proof |-> ret.proof]
    /\ ret' = [ok |-> VerifyKzgProof(call'.commitment, call'.z, call'.y, call'.proof),
               err |-> "nil"]
    /\ pc' = "verified"
    /\ UNCHANGED setup

\* kzg.ComputeKZGProof(polynomial, z)
ComputeKZGProofCall ==
    /\ pc = "idle"
    /\ \E polynomial \in Polys, z \in Fr :
        /\ call' = [op |-> "ComputeKZGProof", poly |-> polynomial, z |-> z]
        /\ ret' = ComputeKZGProof(polynomial, z)
    /\ pc' = "called"
    /\ UNCHANGED setup

\* kzg.VerifyKZGProof(BlobToKZGCommitment(p), z,
\*                    EvaluatePolynomialInEvaluationForm(p, z), proof)
VerifyKZGProofCall ==
    /\ pc = "called" /\ call.op = "ComputeKZGProof" /\ ret.err = "nil"
    /\ call' = [op |-> "VerifyKZGProof", poly |-> call.poly,
                commitment |-> BlobToKZGCommitment(call.poly), z |-> call.z,
                y |-> EvaluatePolynomialInEvaluationForm(call.poly, call.z),
                proof |-> ret.proof]
    /\ ret' = VerifyKZGProof(call'.commitment, call'.z, call'.y, call'.proof)
    /\ pc' = "verified"
    /\ UNCHANGED setup

\* kzg.VerifyKZGProofFromPoints on arbitrary points and scalars
VerifyKZGProofFromPointsCall ==
    /\ pc = "idle"
    /\ \E c \in Fr, z \in Fr, y \in Fr, proof \in Fr :
        /\ call' = [op |-> "VerifyKZGProofFromPoints",
                    commitment |-> c, z |-> z, y |-> y, proof |-> proof]
        /\ ret' = [ok |-> VerifyKZGProofFromPoints(c, z, y, proof), err |-> "nil"]
    /\ pc' = "called"
    /\ UNCHANGED setup

NextProof ==
    \/ EvaluateCall
    \/ ComputeProofCall
    \/ VerifyKzgProofCall
    \/ ComputeKZGProofCall
    \/ VerifyKZGProofCall
    \/ VerifyKZGProofFromPointsCall
    \/ Return

SpecProof == Init /\ [][NextProof]_vars

\* ------------------------------------------------------------------------
\* Claims: single-point proofs
\* ------------------------------------------------------------------------
InDomain(z) == \E i \in DOMAIN Domain : Domain[i] = z

\* C2: single-opening round trip: a proof computed for a length-N polynomial
\* p at a point z outside the domain verifies against commit(p), z and
\* evaluate(p, z), on both code paths (ComputeProof and ComputeKZGProof).
C2_RoundTrip ==
    pc = "verified" /\ call.op \in {"VerifyKzgProof", "VerifyKZGProof"}
        => ret.err = "nil" /\ ret.ok = TRUE
C2_Witness ==
    /\ pc = "verified" /\ call.op = "VerifyKZGProof"
    /\ ~InDomain(call.z) /\ call.poly[1] = 2 /\ call.poly[0] = 1
    /\ ret.ok = TRUE

\* C3: VerifyKZGProofFromPoints accepts exactly when
\* C - y*G1 = (s - z) * proof, s*G2 being entry 1 of the G2 setup.
C3_VerifyEquation ==
    pc = "called" /\ call.op = "VerifyKZGProofFromPoints"
        => (ret.ok <=>
              (call.commitment - call.y * GenG1
                 - (kzgSetupG2[1] - call.z * GenG2) * call.proof) % BLSModulus = 0)
C3_Witness ==
    /\ pc = "called" /\ call.op = "VerifyKZGProofFromPoints"
    /\ ret.ok = TRUE /\ call.proof # 0 /\ call.z # 0 /\ call.y # 0

\* C4: barycentric evaluation at a domain node returns the polynomial's
\* value at that node: evaluate(poly, D[i]) = poly[i].
C4_EvaluateAtNode ==
    pc = "called" /\ call.op = "EvaluatePolyInEvaluationForm"
        => \A i \in DOMAIN Domain :
              call.x = Domain[i] => ret.y = call.poly[i]

\* C5: compute_proof returns the invalid-challenge error and no proof for
\* every z in the domain, and never returns that error for z outside it.
C5_DomainAvoidance ==
    /\ pc = "called" /\ call.op = "ComputeProof"
        => /\ InDomain(call.z) => ret.err = "inavlid z challenge" /\ ret.proofNil
           /\ ~InDomain(call.z) => ret.err = "nil"
    /\ pc = "called" /\ call.op = "ComputeKZGProof"
        => /\ InDomain(call.z)
                => ret.err = "invalid z challenge" /\ ret.proof = Zeroes(G1Bytes)
           /\ ~InDomain(call.z) => ret.err = "nil"
C5_Witness ==
    /\ pc = "called" /\ call.op = "ComputeProof"
    /\ call.z = Domain[2] /\ ret.err = "inavlid z challenge" /\ ret.proofNil

\* ------------------------------------------------------------------------
\* Calls: aggregated proofs (agg_kzg)
\* ------------------------------------------------------------------------
\* the canonical chunks a blob handed to the aggregation holds
CanonicalChunks == {FrTo32(v) : v \in 0 .. MaxBlobElem}
AggBlobs(k) == [0 .. (k - 1) -> [0 .. (FieldElementsPerBlob - 1) -> CanonicalChunks]]

\* agg_kzg.ComputeAggregateKZGProofAndCommitments(blobs)
ComputeAggregateCall ==
    /\ pc = "idle"
    /\ \E k \in 0 .. MaxBlobsPerBlock : \E blobs \in AggBlobs(k) :
        /\ call' = [op |-> "ComputeAggregateKZGProofAndCommitments", blobs |-> blobs]
        /\ ret' = ComputeAggregateKZGProofAndCommitments(blobs)
    /\ pc' = "called"
    /\ UNCHANGED setup

\* the proof and commitments just returned are verified against the blobs:
\* agg_kzg.VerifyAggregateKZGProof(blobs, commitments, proof)
VerifyAggregateCall ==
    /\ pc = "called" /\ call.op = "ComputeAggregateKZGProofAndCommitments"
    /\ ret.err = "nil"
    /\ call' = [op |-> "VerifyAggregateKZGProof", blobs |-> call.blobs,
                commitments |-> ret.commitments, proof |-> ret.proof]
    /\ ret' = [err |-> AggVerifyAggregateKZGProof(call.blobs, ret.commitments, ret.proof)]
    /\ pc' = "verified"
    /\ UNCHANGED setup

NextAgg ==
    \/ ComputeAggregateCall
    \/ VerifyAggregateCall
    \/ Return

SpecAgg == Init /\ [][NextAgg]_vars

\* ------------------------------------------------------------------------
\* Claims: aggregated proofs
\* ------------------------------------------------------------------------
\* C1: aggregate correctness: for k >= 1 canonical blobs, the proof and
\* commitments ComputeAggregateKZGProofAndCommitments returns are accepted
\* by VerifyAggregateKZGProof (no error, no rejection).
C1_AggregateCorrect ==
    pc = "verified" /\ call.op = "VerifyAggregateKZGProof" /\ Len0(call.blobs) >= 1
        => ret.err = "nil"
C1_Witness ==
    /\ pc = "verified" /\ call.op = "VerifyAggregateKZGProof"
    /\ Len0(call.blobs) = 2 /\ call.blobs[0] # call.blobs[1]
    /\ call.blobs[1][3] = FrTo32(1)
    /\ ret.err = "nil"

\* ------------------------------------------------------------------------
\* Specification: byte-level entry points (versioned hashes, the
\* point-evaluation precompile, blob parsing)
\* ------------------------------------------------------------------------
\* 48-byte strings handed over as commitments and proofs: compressed points,
\* the all-zero string, and a string whose value is no point
PointStrings ==
    {ToCompressedG1(p) : p \in 0 .. MaxElem}
        \cup {Zeroes(G1Bytes), BigEndian(CompressionFlag + BLSModulus, G1Bytes)}
\* 32-byte strings put in front of a commitment: its versioned hash under
\* either hash function, the unversioned digest, and a hash off by one byte
HashChoices(kzg) ==
    {KZGToVersionedHash(kzg), KZGToVersionedHashNew(kzg), Sha256(kzg),
     [KZGToVersionedHash(kzg) EXCEPT ![HashBytes] = (@ + 1) % ByteBase]}
SmallChunks == {FrTo32(v) : v \in 0 .. MaxElem}
\* an input of n bytes cut from (or padded after) the five fields
InputOfLength(h, z, y, c, proof, n) ==
    LET full == h \o z \o y \o c \o proof
    IN  IF n <= Len(full) THEN SubSeq(full, 1, n) ELSE full \o Zeroes(n - Len(full))

PrecompileInput(op) ==
    /\ pc = "idle"
    /\ \E c \in PointStrings, proof \in PointStrings,
          z \in ByteStrings(FrBytes), y \in ByteStrings(FrBytes),
          n \in 0 .. PrecompileInputLength + 1 :
        /\ n = PrecompileInputLength \/ (z \in SmallChunks /\ y \in SmallChunks)
        /\ \E h \in HashChoices(c) :
            call' = [op |-> op, input |-> InputOfLength(h, z, y, c, proof, n)]
    /\ pc' = "called"
    /\ UNCHANGED setup

PointEvaluationPrecompileCall ==
    /\ PrecompileInput("PointEvaluationPrecompile")
    /\ ret' = PointEvaluationPrecompile(call'.input)

PointEvaluationPrecompileNewCall ==
    /\ PrecompileInput("PointEvaluationPrecompileNew")
    /\ ret' = PointEvaluationPrecompileNew(call'.input)

VersionedHashInput(op) ==
    /\ pc = "idle"
    /\ \E kzg \in ByteStrings(G1Bytes) : call' = [op |-> op, kzg |-> kzg]
    /\ pc' = "called"
    /\ UNCHANGED setup

KZGToVersionedHashCall ==
    /\ VersionedHashInput("KZGToVersionedHash")
    /\ ret' = [err |-> "nil", hash |-> KZGToVersionedHash(call'.kzg)]

KZGToVersionedHashNewCall ==
    /\ VersionedHashInput("KZGToVersionedHashNew")
    /\ ret' = [err |-> "nil", hash |-> KZGToVersionedHashNew(call'.kzg)]

ComputeVersionedHashCall ==
    /\ VersionedHashInput("ComputeVersionedHash")
    /\ ret' = [err |-> "nil", hash |-> ComputeVersionedHash(call'.kzg)]

\* chunk values around the modulus and at both ends of the 32-byte range
EdgeValues ==
    (0 .. MaxElem) \cup {BLSModulus - 1, BLSModulus, BLSModulus + 1,
                         Pow(ByteBase, FrBytes) - 1}
EdgeChunks == {LittleEndian(v, FrBytes) : v \in EdgeValues}
EdgeBlobs == [0 .. FieldElementsPerBlob - 1 -> EdgeChunks]
PairChunks == {LittleEndian(v, FrBytes) : v \in {0, BLSModulus - 1, BLSModulus}}
PairBlobs == [0 .. FieldElementsPerBlob - 1 -> PairChunks]

BlobParseCall ==
    /\ pc = "idle"
    /\ \E blob \in EdgeBlobs :
        /\ call' = [op |-> "Blob.Parse", blob |-> blob]
        /\ ret' = BlobParse(blob)
    /\ pc' = "called"
    /\ UNCHANGED setup

BlobsParseCall ==
    /\ pc = "idle"
    /\ \E k \in 0 .. MaxBlobsPerBlock : \E blobs \in [0 .. k - 1 -> PairBlobs] :
        /\ call' = [op |-> "Blobs.Parse", blobs |-> blobs]
        /\ ret' = BlobsParse(blobs)
    /\ pc' = "called"
    /\ UNCHANGED setup

ComputeCommitmentCall ==
    /\ pc = "idle"
    /\ \E blob \in EdgeBlobs :
        /\ call' = [op |-> "ComputeCommitment", blob |-> blob]
        /\ ret' = ComputeCommitment(blob)
    /\ pc' = "called"
    /\ UNCHANGED setup

NextBytes ==
    \/ PointEvaluationPrecompileCall
    \/ PointEvaluationPrecompileNewCall
    \/ KZGToVersionedHashCall
    \/ KZGToVersionedHashNewCall
    \/ ComputeVersionedHashCall
    \/ BlobParseCall
    \/ BlobsParseCall
    \/ ComputeCommitmentCall
    \/ Return

SpecBytes == Init /\ [][NextBytes]_vars

\* ------------------------------------------------------------------------
\* Claims: byte-level entry points
\* ------------------------------------------------------------------------
IsPrecompileCall ==
    pc = "called"
        /\ call.op \in {"PointEvaluationPrecompile", "PointEvaluationPrecompileNew"}
\* the five fields of a precompile input, by their byte offsets
InputHash == SliceB(call.input, 0, HashBytes)
InputZ == SliceB(call.input, HashBytes, HashBytes + FrBytes)
InputY == SliceB(call.input, HashBytes + FrBytes, HashBytes + 2 * FrBytes)
InputKZG == SliceB(call.input, HashBytes + 2 * FrBytes, HashBytes + 2 * FrBytes + G1Bytes)
InputProof == SliceB(call.input, HashBytes + 2 * FrBytes + G1Bytes, PrecompileInputLength)
\* the integer a byte string holds, least or most significant byte first
LittleEndianValue(b) == SetBytes(ReverseBytes(b))
BigEndianValue(b) == SetBytes(b)
\* the version byte followed by bytes 1.. of SHA-256 of the commitment
VersionedHashOf(kzg) ==
    <<BlobCommitmentVersionKZG>> \o SubSeq(Sha256(kzg), 2, HashBytes)
\* the opening the input holds verifies, its z and y read by value(_)
OpeningAccepted(zValue, yValue) ==
    /\ zValue < BLSModulus
    /\ yValue < BLSModulus
    /\ FromCompressedG1(InputKZG).err = "nil"
    /\ FromCompressedG1(InputProof).err = "nil"
    /\ VerifyKZGProofFromPoints(FromCompressedG1(InputKZG).point, zValue, yValue,
                                FromCompressedG1(InputProof).point)

\* C6: the precompile returns (empty, no error) if and only if the input has
\* PrecompileInputLength bytes, z and y are canonical, the versioned hash of
\* the commitment equals the leading hash, both points decode, and the
\* opening verifies.
C6_PrecompileIff ==
    IsPrecompileCall =>
        (ret = Success <=>
            /\ Len(call.input) = PrecompileInputLength
            /\ VersionedHashOf(InputKZG) = InputHash
            /\ OpeningAccepted(LittleEndianValue(InputZ), LittleEndianValue(InputY)))
\* the same equivalence for PointEvaluationPrecompile of kzg_bytes.go alone
PrecompileIffBytes ==
    pc = "called" /\ call.op = "PointEvaluationPrecompile" =>
        (ret = Success <=>
            /\ Len(call.input) = PrecompileInputLength
            /\ VersionedHashOf(InputKZG) = InputHash
            /\ OpeningAccepted(LittleEndianValue(InputZ), LittleEndianValue(InputY)))

\* C7: an input whose length is not PrecompileInputLength is rejected with
\* the length error, whatever its bytes are.
C7_LengthFirst ==
    IsPrecompileCall /\ Len(call.input) # PrecompileInputLength =>
        ret = Failure("invalid input length", "nil")
C7_Witness ==
    /\ pc = "called" /\ call.op = "PointEvaluationPrecompile"
    /\ Len(call.input) = PrecompileInputLength + 1
    /\ PointEvaluationPrecompile(SubSeq(call.input, 1, PrecompileInputLength)) = Success
    /\ ret = Failure("invalid input length", "nil")

\* C8: a 32-byte chunk whose integer value is >= q is rejected with an
\* error by Blob.Parse, Blobs.Parse, ComputeCommitment and the precompile's
\* decoders of z and y.
C8_Canonicity ==
    /\ pc = "called" /\ call.op \in {"Blob.Parse", "ComputeCommitment"}
        /\ (\E i \in DOMAIN call.blob : LittleEndianValue(call.blob[i]) >= BLSModulus)
        => ret.err # "nil"
    /\ pc = "called" /\ call.op = "Blobs.Parse"
        /\ (\E j \in DOMAIN call.blobs : \E i \in DOMAIN call.blobs[j] :
                LittleEndianValue(call.blobs[j][i]) >= BLSModulus)
        => ret.err # "nil"
    /\ IsPrecompileCall /\ Len(call.input) = PrecompileInputLength
        /\ (LittleEndianValue(InputZ) >= BLSModulus
                \/ LittleEndianValue(InputY) >= BLSModulus)
        => ret.err # "nil" /\ ret.outNil
C8_Witness ==
    /\ pc = "called" /\ call.op = "ComputeCommitment"
    /\ LittleEndianValue(call.blob[2]) = BLSModulus
    /\ \A i \in DOMAIN call.blob : i # 2 => LittleEndianValue(call.blob[i]) < BLSModulus
    /\ ret.err = "blob is not canonical"

\* C9: KZGToVersionedHash and ComputeVersionedHash return the version byte
\* followed by bytes 1.. of SHA-256 of the commitment.
C9_VersionedHash ==
    pc = "called"
        /\ call.op \in {"KZGToVersionedHash", "KZGToVersionedHashNew",
                        "ComputeVersionedHash"}
        => ret.hash = VersionedHashOf(call.kzg)
\* the same for KZGToVersionedHash of kzg_bytes.go alone
VersionedHashBytes ==
    pc = "called" /\ call.op = "KZGToVersionedHash"
        => ret.hash = VersionedHashOf(call.kzg)

\* C10 as stated: the precompile reads z (offset 32) and y (offset 64) as
\* big-endian integers: it accepts only openings that verify for those
\* values, and reports an invalid z or y only when that value is >= q.
C10_BigEndianDecode ==
    IsPrecompileCall =>
        /\ ret = Success =>
            OpeningAccepted(BigEndianValue(InputZ), BigEndianValue(InputY))
        /\ "invalid evaluation point" \in {ret.err, ret.cause} =>
            BigEndianValue(InputZ) >= BLSModulus
        /\ "invalid expected output" \in {ret.err, ret.cause} =>
            BigEndianValue(InputY) >= BLSModulus
\* C10 amended: the precompile reads z (offset 32) and y (offset 64) as
\* little-endian integers: it accepts only openings that verify for those
\* values, and reports an invalid z or y only when that value is >= q.
C10_LittleEndianDecode ==
    IsPrecompileCall =>
        /\ ret = Success =>
            OpeningAccepted(LittleEndianValue(InputZ), LittleEndianValue(InputY))
        /\ "invalid evaluation point" \in {ret.err, ret.cause} =>
            LittleEndianValue(InputZ) >= BLSModulus
        /\ "invalid expected output" \in {ret.err, ret.cause} =>
            LittleEndianValue(InputY) >= BLSModulus
C10_Witness ==
    /\ pc = "called" /\ call.op = "PointEvaluationPrecompile"
    /\ ret = Success
    /\ BigEndianValue(InputZ) >= BLSModulus
    /\ LittleEndianValue(InputZ) < BLSModulus
    /\ LittleEndianValue(InputY) # BigEndianValue(InputY)

\* ------------------------------------------------------------------------
\* kzg_new.go: the Fiat-Shamir challenge and aggregated proofs
\* ------------------------------------------------------------------------
\* the domain tag "FSBLOBVERIFY_V1_" (16 bytes; one byte at this scale)
FIAT_SHAMIR_PROTOCOL_DOMAIN == <<3>>
\* bytes of an encoded uint64 (8; two bytes at this scale, enough for
\* FieldElementsPerBlob)
U64Bytes == 2
\* codec.EncodingWriter.WriteUint64: little-endian
WriteUint64(v) == LittleEndian(v, U64Bytes)

\* BytesToBLSField: the digest with its bytes reversed, read by
\* big.Int.SetBytes, reduced modulo BLSModulus
BytesToBLSFieldNoReverse(h) == BigToFr(SetBytes(h) % BLSModulus)
BytesToBLSField(h) == BigToFr(SetBytes(ReverseBytes(h)) % BLSModulus)

\* the bytes HashToBLSField writes for one polynomial
PolyBytes(poly) == ConcatAll([i \in DOMAIN poly |-> FrTo32(poly[i])], Len0(poly))

\* HashToBLSField(polys, comms)
HashToBLSField(polys, comms) ==
    BytesToBLSField(Sha256(
        FIAT_SHAMIR_PROTOCOL_DOMAIN
            \o WriteUint64(FieldElementsPerBlob)
            \o WriteUint64(Len0(polys))
            \o ConcatAll([i \in DOMAIN polys |-> PolyBytes(polys[i])], Len0(polys))
            \o ConcatAll(comms, Len0(comms))))

\* ComputePowers(r, n): the loop multiplies the running power by r
RECURSIVE ComputePowersAt(_, _)
ComputePowersAt(r, i) ==
    IF i = 0 THEN 1 % BLSModulus ELSE MulModFr(ComputePowersAt(r, i - 1), r)
ComputePowers(r, n) == [i \in 0 .. (n - 1) |-> ComputePowersAt(r, i)]

\* bls.PolyLinComb(vectors, scalars): (out, err), for len(vectors) > 0
PolyLinComb(vectors, scalars) ==
    IF Len0(vectors) # Len0(scalars)
        \/ \E i \in DOMAIN vectors : Len0(vectors[i]) # Len0(vectors[0])
    THEN [err |-> "PolyLinComb: mismatched lengths", out |-> Empty0]
    ELSE [err |-> "nil",
          out |-> [j \in DOMAIN vectors[0] |->
                      MatrixLinCombAt(vectors, scalars, j, Len0(vectors))]]

\* ComputeAggregatedPolyAndCommitment(blobs, commitments):
\* (aggregatedPoly, aggregatedCommitment, evaluationChallenge, err)
ComputeAggregatedPolyAndCommitmentFromBlobs(blobs, commitments) ==
    LET r      == HashToBLSField(blobs, commitments)
        powers == ComputePowers(r, Len0(blobs))
        none   == [poly |-> Empty0, commitment |-> Zeroes(G1Bytes), z |-> 0]
    IN  IF Len0(powers) = 0 THEN [err |-> "powers can't be 0 length"] @@ none
        ELSE IF \E i \in DOMAIN commitments :
                    FromCompressedG1(commitments[i]).err # "nil"
        THEN [err |-> "bad point"] @@ none
        ELSE IF LinCombG1Panics(commitments, powers)
        THEN [err |-> "panic: LinCombG1 length mismatch"] @@ none
        ELSE [err |-> "nil",
              poly |-> PolyLinComb(blobs, powers).out,
              commitment |->
                  ToCompressedG1(LinCombG1(
                      [i \in DOMAIN blobs |-> LinCombG1(kzgSetupLagrange, blobs[i])],
                      powers)),
              z |-> MulModFr(r, powers[Len0(powers) - 1])]
ComputeAggregatedPolyAndCommitment(blobs, commitments) ==
    LET r      == HashToBLSField(blobs, commitments)
        powers == ComputePowers(r, Len0(blobs))
        none   == [poly |-> Empty0, commitment |-> Zeroes(G1Bytes), z |-> 0]
    IN  IF Len0(powers) = 0 THEN [err |-> "powers can't be 0 length"] @@ none
        ELSE LET evaluationChallenge == MulModFr(r, powers[Len0(powers) - 1])
                 aggregatedPoly == PolyLinComb(blobs, powers)
             IN  IF aggregatedPoly.err # "nil"
                 THEN [err |-> aggregatedPoly.err] @@ none
                 ELSE IF \E i \in DOMAIN commitments :
                            FromCompressedG1(commitments[i]).err # "nil"
                 THEN [err |-> "bad point"] @@ none
                 ELSE IF LinCombG1Panics(commitments, powers)
                 THEN [err |-> "panic: LinCombG1 length mismatch"] @@ none
                 ELSE LET commitmentsG1 ==
                            [i \in DOMAIN commitments |->
                                FromCompressedG1(commitments[i]).point]
                      IN  [err |-> "nil",
                           poly |-> aggregatedPoly.out,
                           commitment |->
                               ToCompressedG1(LinCombG1(commitmentsG1, powers)),
                           z |-> evaluationChallenge]

\* ComputeAggregateKZGProof(blobs) of kzg_new.go: (proof, err)
NewComputeAggregateKZGProof(blobs) ==
    LET commitments == [i \in DOMAIN blobs |-> BlobToKZGCommitment(blobs[i])]
        agg == ComputeAggregatedPolyAndCommitment(blobs, commitments)
    IN  IF agg.err # "nil" THEN [err |-> agg.err, proof |-> Zeroes(G1Bytes)]
        ELSE ComputeKZGProof(agg.poly, agg.z)

\* VerifyAggregateKZGProof(blobs, expectedKZGCommitments, kzgAggregatedProof)
\* of kzg_new.go: (ok, err)
NewVerifyAggregateKZGProof(blobs, expectedKZGCommitments, kzgAggregatedProof) ==
    LET agg == ComputeAggregatedPolyAndCommitment(blobs, expectedKZGCommitments)
    IN  IF agg.err # "nil" THEN [ok |-> FALSE, err |-> agg.err]
        ELSE LET y == EvaluatePolynomialInEvaluationForm(agg.poly, agg.z)
             IN  VerifyKZGProof(agg.commitment, agg.z, y, kzgAggregatedProof)

\* BlobsToPolynomials(blobs): (polynomials, ok); every chunk is read as a
\* canonical field element
BlobsToPolynomials(blobs) ==
    IF \E j \in DOMAIN blobs : \E i \in DOMAIN blobs[j] : ~FrFrom32(blobs[j][i]).ok
    THEN [ok |-> FALSE, polys |-> Empty0]
    ELSE [ok |-> TRUE,
          polys |-> [j \in DOMAIN blobs |->
                        [i \in DOMAIN blobs[j] |-> FrFrom32(blobs[j][i]).fr]]]

\* VerifyAggregateKZGProof(blobs, expectedKZGCommitments, kzgAggregatedProof)
\* of kzg_bytes.go: (ok, err)
BytesVerifyAggregateKZGProof(blobs, expectedKZGCommitments, kzgAggregatedProof) ==
    LET polynomials == BlobsToPolynomials(blobs)
    IN  IF ~polynomials.ok
        THEN [ok |-> FALSE, err |-> "could not convert blobs to polynomials"]
        ELSE LET agg == ComputeAggregatedPolyAndCommitment(polynomials.polys,
                                                           expectedKZGCommitments)
             IN  IF agg.err # "nil" THEN [ok |-> FALSE, err |-> agg.err]
                 ELSE LET y == EvaluatePolynomialInEvaluationForm(agg.poly, agg.z)
                          kzgProofG1 == FromCompressedG1(kzgAggregatedProof)
                      IN  IF kzgProofG1.err # "nil"
                          THEN [ok |-> FALSE, err |-> "failed to decode kzgProof"]
                          ELSE [ok |-> VerifyKZGProofFromPoints(
                                           FromCompressedG1(agg.commitment).point,
                                           agg.z, y, kzgProofG1.point),
                                err |-> "nil"]

\* ------------------------------------------------------------------------
\* Calls: challenges and aggregated proofs
\* ------------------------------------------------------------------------
\* total weight of the polynomials handed to the aggregation
MaxWeight == 2
RECURSIVE SumUpto(_, _)
SumUpto(p, n) == IF n = 0 THEN 0 ELSE SumUpto(p, n - 1) + p[n - 1]
FsPolys ==
    {p \in [0 .. (FieldElementsPerBlob - 1) -> 0 .. MaxWeight] :
        SumUpto(p, FieldElementsPerBlob) <= MaxWeight}
\* the blob holding a polynomial
BlobOf(poly) == [i \in DOMAIN poly |-> FrTo32(poly[i])]
\* a commitment supplied with a polynomial: its own (0), another point (1),
\* bytes that are no point (2)
SuppliedCommitment(poly, choice) ==
    CASE choice = 0 -> BlobToKZGCommitment(poly)
      [] choice = 1 -> ToCompressedG1(AddG1(LinCombG1(kzgSetupLagrange, poly), GenG1))
      [] OTHER -> Zeroes(G1Bytes)
\* HashToBLSField(polys, comms)
HashToBLSFieldCall ==
    /\ pc = "idle"
    /\ \E k \in 0 .. MaxBlobsPerBlock : \E polys \in [0 .. (k - 1) -> FsPolys] :
        \E choice \in [0 .. (k - 1) -> 0 .. 2] :
            LET comms == [i \in 0 .. (k - 1) |-> SuppliedCommitment(polys[i], choice[i])]
            IN  /\ call' = [op |-> "HashToBLSField", polys |-> polys, comms |-> comms]
                /\ ret' = [err |-> "nil", r |-> HashToBLSField(polys, comms)]
    /\ pc' = "called"
    /\ UNCHANGED setup

\* ComputeAggregatedPolyAndCommitment(blobs, commitments) of kzg_new.go; the
\* record of the call keeps the locals r and powers next to the results
ComputeAggregatedPolyAndCommitmentCall ==
    /\ pc = "idle"
    /\ \E k \in 0 .. MaxBlobsPerBlock : \E polys \in [0 .. (k - 1) -> FsPolys] :
        \E choice \in [0 .. (k - 1) -> 0 .. 2] :
            LET comms == [i \in 0 .. (k - 1) |-> SuppliedCommitment(polys[i], choice[i])]
                r == HashToBLSField(polys, comms)
            IN  /\ call' = [op |-> "ComputeAggregatedPolyAndCommitment",
                            polys |-> polys, comms |-> comms]
                /\ ret' = ComputeAggregatedPolyAndCommitment(polys, comms)
                            @@ [r |-> r, powers |-> ComputePowers(r, k)]
    /\ pc' = "called"
    /\ UNCHANGED setup

\* computeAggregateKzgCommitment(blobs, commitments) of agg_kzg, followed by
\* the evaluation point ComputeAggregateKZGProof and VerifyAggregateKZGProof
\* derive from its results; the record keeps the locals r and powers
computeAggregateKzgCommitmentCall ==
    /\ pc = "idle"
    /\ \E k \in 0 .. MaxBlobsPerBlock : \E polys \in [0 .. (k - 1) -> FsPolys] :
        \E choice \in [0 .. (k - 1) -> 0 .. 2] :
            LET comms == [i \in 0 .. (k - 1) |-> SuppliedCommitment(polys[i], choice[i])]
                blobs == [i \in 0 .. (k - 1) |-> BlobOf(polys[i])]
                r == ChallengeR(blobs, comms)
                agg == computeAggregateKzgCommitment(blobs, comms)
            IN  /\ call' = [op |-> "computeAggregateKzgCommitment",
                            polys |-> polys, blobs |-> blobs, comms |-> comms]
                /\ ret' = agg @@ [r |-> r, powers |-> computePowers(r, k),
                                  z |-> IF agg.err = "nil"
                                        THEN AggregateChallenge(agg.poly, agg.commitment)
                                        ELSE 0]
    /\ pc' = "called"
    /\ UNCHANGED setup

\* BytesToBLSField(h)
BytesToBLSFieldCall ==
    /\ pc = "idle"
    /\ \E h \in ByteStrings(HashBytes) :
        /\ call' = [op |-> "BytesToBLSField", h |-> h]
        /\ ret' = [err |-> "nil", fr |-> BytesToBLSField(h)]
    /\ pc' = "called"
    /\ UNCHANGED setup

\* hashToFr(&out, h)
hashToFrCall ==
    /\ pc = "idle"
    /\ \E h \in ByteStrings(HashBytes) :
        /\ call' = [op |-> "hashToFr", h |-> h]
        /\ ret' = [err |-> "nil", fr |-> hashToFr(h)]
    /\ pc' = "called"
    /\ UNCHANGED setup

\* agg_kzg.ComputeAggregateKZGProofAndCommitments(blobs)
AggGenerateCall ==
    /\ pc = "idle"
    /\ \E k \in 0 .. MaxBlobsPerBlock : \E polys \in [0 .. (k - 1) -> FsPolys] :
        LET blobs == [i \in 0 .. (k - 1) |-> BlobOf(polys[i])]
        IN  /\ call' = [op |-> "agg_kzg.ComputeAggregateKZGProofAndCommitments",
                        polys |-> polys, blobs |-> blobs]
            /\ ret' = ComputeAggregateKZGProofAndCommitments(blobs)
    /\ pc' = "called"
    /\ UNCHANGED setup

\* kzg.ComputeAggregateKZGProof(blobs) of kzg_new.go; the record keeps the
\* commitments the function computed
NewGenerateCall ==
    /\ pc = "idle"
    /\ \E k \in 0 .. MaxBlobsPerBlock : \E polys \in [0 .. (k - 1) -> FsPolys] :
        /\ call' = [op |-> "kzg.ComputeAggregateKZGProof", polys |-> polys]
        /\ ret' = NewComputeAggregateKZGProof(polys)
                    @@ [commitments |->
                            [i \in 0 .. (k - 1) |-> BlobToKZGCommitment(polys[i])]]
    /\ pc' = "called"
    /\ UNCHANGED setup

NextFS ==
    \/ AggGenerateCall
    \/ NewGenerateCall
    \/ BytesToBLSFieldCall
    \/ hashToFrCall
    \/ HashToBLSFieldCall
    \/ ComputeAggregatedPolyAndCommitmentCall
    \/ computeAggregateKzgCommitmentCall
    \/ Return

SpecFS == Init /\ [][NextFS]_vars

\* ------------------------------------------------------------------------
\* Calls: aggregate verification of supplied and altered inputs
\* ------------------------------------------------------------------------
\* total weight of a polynomial whose proof is verified
TamperWeight == 1
TamperPolys == {p \in FsPolys : SumUpto(p, FieldElementsPerBlob) <= TamperWeight}
\* the bits of a byte
Bits == {m \in 1 .. (ByteBase - 1) : \E e \in 0 .. ByteBase : m = Pow(2, e)}
\* the byte d with bit m flipped
FlipBit(d, m) == IF (d \div m) % 2 = 1 THEN d - m ELSE d + m
FlipIn(b, pos, m) == [n \in DOMAIN b |-> IF n = pos THEN FlipBit(b[n], m) ELSE b[n]]
\* what is altered before the call: one bit of chunk i of blob j,
\* one bit of commitment j, one bit of the proof
Tampers(k) ==
    [part : {"blob"}, j : 0 .. (k - 1), i : 0 .. (FieldElementsPerBlob - 1),
              pos : 1 .. FrBytes, bit : Bits]
        \cup [part : {"commitment"}, j : 0 .. (k - 1), i : {0},
              pos : 1 .. G1Bytes, bit : Bits]
        \cup [part : {"proof"}, j : {0}, i : {0}, pos : 1 .. G1Bytes, bit : Bits]
TamperBlobs(blobs, t) ==
    IF t.part = "blob"
    THEN [j \in DOMAIN blobs |->
            [i \in DOMAIN blobs[j] |->
                IF j = t.j /\ i = t.i THEN FlipIn(blobs[j][i], t.pos, t.bit)
                ELSE blobs[j][i]]]
    ELSE blobs
TamperCommitments(comms, t) ==
    IF t.part = "commitment"
    THEN [j \in DOMAIN comms |->
            IF j = t.j THEN FlipIn(comms[j], t.pos, t.bit) ELSE comms[j]]
    ELSE comms
TamperProof(proof, t) == IF t.part = "proof" THEN FlipIn(proof, t.pos, t.bit) ELSE proof
\* the altered bytes are bytes
TamperFits(blobs, comms, proof, t) ==
    /\ \A j \in DOMAIN blobs : \A i \in DOMAIN blobs[j] :
            \A n \in 1 .. FrBytes : TamperBlobs(blobs, t)[j][i][n] \in Byte
    /\ \A j \in DOMAIN comms :
            \A n \in 1 .. G1Bytes : TamperCommitments(comms, t)[j][n] \in Byte
    /\ \A n \in 1 .. G1Bytes : TamperProof(proof, t)[n] \in Byte

\* the polynomials of the call are among those whose inputs are altered
TamperCase == \A j \in DOMAIN call.polys : call.polys[j] \in TamperPolys

\* agg_kzg.VerifyAggregateKZGProof(blobs, blobKzgs, aggregatedProof) on the
\* output ComputeAggregateKZGProofAndCommitments just returned
AggVerifyCall ==
    /\ pc = "called"
    /\ call.op = "agg_kzg.ComputeAggregateKZGProofAndCommitments"
    /\ ret.err = "nil"
    /\ call' = [op |-> "agg_kzg.VerifyAggregateKZGProof", polys |-> call.polys,
                blobs |-> call.blobs, comms |-> ret.commitments,
                proof |-> ret.proof, tamper |-> "none"]
    /\ ret' = [err |-> AggVerifyAggregateKZGProof(call.blobs, ret.commitments, ret.proof)]
    /\ pc' = "verified"
    /\ UNCHANGED setup

\* agg_kzg.VerifyAggregateKZGProof again, on the blobs, commitments and
\* proof just accepted with one bit altered
AggTamperedVerifyCall ==
    /\ pc = "verified"
    /\ call.op = "agg_kzg.VerifyAggregateKZGProof"
    /\ ret.err = "nil"
    /\ TamperCase
    /\ \E t \in Tampers(Len0(call.blobs)) :
        /\ TamperFits(call.blobs, call.comms, call.proof, t)
        /\ call' = [call EXCEPT !.blobs = TamperBlobs(call.blobs, t),
                                !.comms = TamperCommitments(call.comms, t),
                                !.proof = TamperProof(call.proof, t),
                                !.tamper = t.part]
        /\ ret' = [err |-> AggVerifyAggregateKZGProof(
                               TamperBlobs(call.blobs, t),
                               TamperCommitments(call.comms, t),
                               TamperProof(call.proof, t))]
    /\ pc' = "tampered"
    /\ UNCHANGED setup

\* kzg.VerifyAggregateKZGProof(blobs, expectedKZGCommitments,
\* kzgAggregatedProof) of kzg_bytes.go on the blobs, their commitments and the
\* proof ComputeAggregateKZGProof just returned
BytesVerifyCall ==
    /\ pc = "called"
    /\ call.op = "kzg.ComputeAggregateKZGProof"
    /\ ret.err = "nil"
    /\ LET blobs == [i \in DOMAIN call.polys |-> BlobOf(call.polys[i])]
       IN  /\ call' = [op |-> "kzg.VerifyAggregateKZGProof", polys |-> call.polys,
                       blobs |-> blobs, comms |-> ret.commitments,
                       proof |-> ret.proof, tamper |-> "none"]
           /\ ret' = BytesVerifyAggregateKZGProof(blobs, ret.commitments, ret.proof)
    /\ pc' = "verified"
    /\ UNCHANGED setup

\* kzg.VerifyAggregateKZGProof of kzg_bytes.go again, on the blobs,
\* commitments and proof just accepted with one bit altered
BytesTamperedVerifyCall ==
    /\ pc = "verified"
    /\ call.op = "kzg.VerifyAggregateKZGProof"
    /\ ret.err = "nil" /\ ret.ok
    /\ TamperCase
    /\ \E t \in Tampers(Len0(call.blobs)) :
        /\ TamperFits(call.blobs, call.comms, call.proof, t)
        /\ call' = [call EXCEPT !.blobs = TamperBlobs(call.blobs, t),
                                !.comms = TamperCommitments(call.comms, t),
                                !.proof = TamperProof(call.proof, t),
                                !.tamper = t.part]
        /\ ret' = BytesVerifyAggregateKZGProof(
                      TamperBlobs(call.blobs, t), TamperCommitments(call.comms, t),
                      TamperProof(call.proof, t))
    /\ pc' = "tampered"
    /\ UNCHANGED setup

\* agg_kzg.ComputeAggregateKZGProof(blobs, commitments) with the commitments
\* the caller supplies
AggProofCall ==
    /\ pc = "idle"
    /\ \E k \in 0 .. MaxBlobsPerBlock : \E polys \in [0 .. (k - 1) -> TamperPolys] :
        \E choice \in [0 .. (k - 1) -> 0 .. 2] :
            LET comms == [i \in 0 .. (k - 1) |-> SuppliedCommitment(polys[i], choice[i])]
                blobs == [i \in 0 .. (k - 1) |-> BlobOf(polys[i])]
            IN  /\ call' = [op |-> "agg_kzg.ComputeAggregateKZGProof",
                            blobs |-> blobs, comms |-> comms, tamper |-> "none"]
                /\ ret' = AggComputeAggregateKZGProof(blobs, comms)
    /\ pc' = "called"
    /\ UNCHANGED setup

\* kzg.VerifyAggregateKZGProof(blobs, expectedKZGCommitments,
\* kzgAggregatedProof) of kzg_new.go with the proof ComputeAggregateKZGProof
\* just returned and the commitments the caller supplies
NewVerifyCall ==
    /\ pc = "called"
    /\ call.op = "kzg.ComputeAggregateKZGProof"
    /\ ret.err = "nil"
    /\ \E choice \in [DOMAIN call.polys -> 0 .. 2] :
        LET comms == [i \in DOMAIN call.polys |->
                        SuppliedCommitment(call.polys[i], choice[i])]
        IN  /\ call' = [op |-> "kzg.VerifyAggregateKZGProof of kzg_new.go",
                        polys |-> call.polys, comms |-> comms, proof |-> ret.proof,
                        tamper |-> "none"]
            /\ ret' = NewVerifyAggregateKZGProof(call.polys, comms, ret.proof)
    /\ pc' = "verified"
    /\ UNCHANGED setup

NextVerify ==
    \/ AggGenerateCall
    \/ NewGenerateCall
    \/ AggVerifyCall
    \/ AggTamperedVerifyCall
    \/ BytesVerifyCall
    \/ BytesTamperedVerifyCall
    \/ NewVerifyCall
    \/ AggProofCall
    \/ Return

SpecVerify == Init /\ [][NextVerify]_vars

\* ------------------------------------------------------------------------
\* Package initialisation on other setup strings
\* ------------------------------------------------------------------------
\* longest Lagrange table a setup string holds
MaxTableLen == 8
\* the Lagrange tables of the setup strings: n points a, a + b, a + 2b, ...
Tables ==
    {[i \in 0 .. (n - 1) |-> (a + b * i) % BLSModulus] :
        n \in 0 .. MaxTableLen, a \in 0 .. (BLSModulus - 1), b \in 0 .. (BLSModulus - 1)}

\* the package before func init() has run: the tables are nil slices, the
\* domain holds nil pointers; call.parsedSetup is the setup string, parsed
InitStart ==
    \E s \in SetupSecrets : \E l \in Tables :
        /\ kzgSetupG2 = Empty0
        /\ kzgSetupLagrange = Empty0
        /\ KzgSetupG1 = Empty0
        /\ Domain = [i \in 0 .. (FieldElementsPerBlob - 1) |-> "nil"]
        /\ pc = "start"
        /\ call = [op |-> "init",
                   parsedSetup |-> [KZGSetupStr(s) EXCEPT !.SetupLagrange = l]]
        /\ ret = [err |-> "nil"]

\* func init(): the panic of reverseBits ends the program after kzgSetupG2
\* has been assigned
init ==
    /\ pc = "start"
    /\ kzgSetupG2' = call.parsedSetup.SetupG2
    /\ IF bitReversalPermutationPanics(call.parsedSetup.SetupLagrange)
       THEN /\ pc' = "aborted"
            /\ ret' = [err |-> "panic: Order must be a power of two."]
            /\ UNCHANGED <<kzgSetupLagrange, KzgSetupG1, Domain>>
       ELSE /\ kzgSetupLagrange' = bitReversalPermutation(call.parsedSetup.SetupLagrange)
            /\ KzgSetupG1' = call.parsedSetup.SetupG1
            /\ Domain' = initDomain
            /\ pc' = "loaded"
            /\ ret' = [err |-> "nil"]
    /\ UNCHANGED call

NextLoad == init

SpecLoad == InitStart /\ [][NextLoad]_vars

\* ------------------------------------------------------------------------
\* Concurrent callers of the core operations
\* ------------------------------------------------------------------------
\* the goroutines calling into the package; in this specification pc, call
\* and ret hold one entry for each of them
Threads == {"t1", "t2"}
\* largest evaluation point and largest group element handed to a call
MaxPoint == 1
\* the zero polynomial and the polynomials that are 1 at one of the first
\* two nodes
UnitPolys ==
    {[i \in 0 .. (FieldElementsPerBlob - 1) |-> IF i = j THEN 1 ELSE 0] :
        j \in {0, 1, FieldElementsPerBlob}}
ConcPoints == {ToCompressedG1(g) : g \in 0 .. MaxPoint}
\* the calls: commit, evaluate, compute proof, verify, aggregate, precompile
CoreCalls ==
    [op : {"BlobToKZGCommitment", "ComputeAggregateKZGProofAndCommitments"},
     poly : UnitPolys]
        \cup [op : {"EvaluatePolyInEvaluationForm", "ComputeProof"},
              poly : UnitPolys, x : 0 .. MaxPoint]
        \cup [op : {"VerifyKZGProof"},
              commitment : ConcPoints, x : 0 .. MaxPoint, y : {0}, proof : ConcPoints]
        \cup {[op |-> "PointEvaluationPrecompile",
               input |-> KZGToVersionedHash(c) \o FrTo32(x) \o FrTo32(0) \o c \o proof] :
                  c \in ConcPoints, x \in 0 .. MaxPoint, proof \in ConcPoints}
\* what the operation of call c computes from its arguments, the setup
\* tables and the domain
CoreResult(c) ==
    CASE c.op = "BlobToKZGCommitment" ->
            [err |-> "nil", commitment |-> BlobToKZGCommitment(c.poly)]
      [] c.op = "ComputeAggregateKZGProofAndCommitments" ->
            ComputeAggregateKZGProofAndCommitments([j \in {0} |-> BlobOf(c.poly)])
      [] c.op = "EvaluatePolyInEvaluationForm" ->
            EvaluatePolyInEvaluationForm(c.poly, c.x)
      [] c.op = "ComputeProof" -> ComputeProof(c.poly, c.x)
      [] c.op = "VerifyKZGProof" -> VerifyKZGProof(c.commitment, c.x, c.y, c.proof)
      [] OTHER -> PointEvaluationPrecompile(c.input)

\* func init() has run; no goroutine is in a call
InitConc ==
    \E s \in SetupSecrets :
        LET parsedSetup == KZGSetupStr(s)
        IN  /\ kzgSetupG2 = parsedSetup.SetupG2
            /\ kzgSetupLagrange = bitReversalPermutation(parsedSetup.SetupLagrange)
            /\ KzgSetupG1 = parsedSetup.SetupG1
            /\ Domain = initDomain
            /\ pc = [t \in Threads |-> "idle"]
            /\ call = [t \in Threads |-> [op |-> "none"]]
            /\ ret = [t \in Threads |-> [err |-> "nil"]]

\* goroutine t enters a core operation
Start(t) ==
    /\ pc[t] = "idle"
    /\ \E c \in CoreCalls : call' = [call EXCEPT ![t] = c]
    /\ pc' = [pc EXCEPT ![t] = "running"]
    /\ UNCHANGED <<setup, ret>>

\* the operation of goroutine t reads the tables and the domain and computes
\* its result in buffers of its own
FinishRepermuting(t) ==
    /\ pc[t] = "running"
    /\ ret' = [ret EXCEPT ![t] = CoreResult(call[t])]
    /\ pc' = [pc EXCEPT ![t] = "done"]
    /\ kzgSetupLagrange' = bitReversalPermutation(kzgSetupLagrange)
    /\ UNCHANGED <<kzgSetupG2, KzgSetupG1, Domain, call>>
Finish(t) ==
    /\ pc[t] = "running"
    /\ ret' = [ret EXCEPT ![t] = CoreResult(call[t])]
    /\ pc' = [pc EXCEPT ![t] = "done"]
    /\ UNCHANGED <<setup, call>>

\* the caller of goroutine t has taken the result
ReturnConc(t) ==
    /\ pc[t] = "done"
    /\ pc' = [pc EXCEPT ![t] = "idle"]
    /\ call' = [call EXCEPT ![t] = [op |-> "none"]]
    /\ ret' = [ret EXCEPT ![t] = [err |-> "nil"]]
    /\ UNCHANGED setup

NextConc == \E t \in Threads : Start(t) \/ Finish(t) \/ ReturnConc(t)

SpecConc == InitConc /\ [][NextConc]_vars

\* ------------------------------------------------------------------------
\* Claims: challenges and aggregated proofs
\* ------------------------------------------------------------------------
\* the transcript: the tag, N and k as little-endian u64, every field
\* element of every polynomial as 32 little-endian bytes, every commitment
TranscriptOf(polys, comms) ==
    FIAT_SHAMIR_PROTOCOL_DOMAIN
        \o LittleEndian(FieldElementsPerBlob, U64Bytes)
        \o LittleEndian(Len0(polys), U64Bytes)
        \o ConcatAll([i \in DOMAIN polys |->
                ConcatAll([j \in DOMAIN polys[i] |-> LittleEndian(polys[i][j], FrBytes)],
                          Len0(polys[i]))], Len0(polys))
        \o ConcatAll(comms, Len0(comms))
\* the field element a digest is mapped to
DigestToField(h) == LittleEndianValue(h) % BLSModulus

\* C11: the challenge r of aggregate generation and verification is the
\* hash of exactly the transcript: tag, N, k, the polynomials' field
\* elements, the commitments.
C11_Transcript ==
    pc = "called"
        /\ call.op \in {"HashToBLSField", "ComputeAggregatedPolyAndCommitment",
                        "computeAggregateKzgCommitment"}
        => ret.r = DigestToField(Sha256(TranscriptOf(call.polys, call.comms)))
\* the same for the challenge of kzg_new.go alone
TranscriptNew ==
    pc = "called"
        /\ call.op \in {"HashToBLSField", "ComputeAggregatedPolyAndCommitment"}
        => ret.r = DigestToField(Sha256(TranscriptOf(call.polys, call.comms)))

\* C12 as stated: BytesToBLSField(h) and hashToFr(h) return the big-endian
\* integer value of h reduced modulo q.
C12_BigEndianHashToField ==
    pc = "called" /\ call.op \in {"BytesToBLSField", "hashToFr"}
        => ret.fr = BigEndianValue(call.h) % BLSModulus
\* C12 amended: BytesToBLSField(h) and hashToFr(h) return the little-endian
\* integer value of h reduced modulo q.
C12_LittleEndianHashToField ==
    pc = "called" /\ call.op \in {"BytesToBLSField", "hashToFr"}
        => ret.fr = LittleEndianValue(call.h) % BLSModulus
C12_Witness ==
    /\ pc = "called" /\ call.op = "BytesToBLSField"
    /\ LittleEndianValue(call.h) > BLSModulus
    /\ BigEndianValue(call.h) % BLSModulus # LittleEndianValue(call.h) % BLSModulus
    /\ ret.fr = LittleEndianValue(call.h) - BLSModulus

\* C13: over k >= 1 blobs the power basis is powers[j] = r^j for j in
\* [0, k) (powers[0] = 1 also for r = 0) and the evaluation point is
\* z = r * powers[k-1] = r^k.
C13_PowersAndPoint ==
    pc = "called"
        /\ call.op \in {"ComputeAggregatedPolyAndCommitment",
                        "computeAggregateKzgCommitment"}
        /\ Len0(call.polys) >= 1 /\ ret.err = "nil"
        => /\ Len0(ret.powers) = Len0(call.polys)
           /\ \A j \in DOMAIN ret.powers : ret.powers[j] = Pow(ret.r, j) % BLSModulus
           /\ ret.z = (ret.r * ret.powers[Len0(call.polys) - 1]) % BLSModulus
           /\ ret.z = Pow(ret.r, Len0(call.polys)) % BLSModulus
\* the same for ComputeAggregatedPolyAndCommitment of kzg_new.go alone
PowersAndPointNew ==
    pc = "called" /\ call.op = "ComputeAggregatedPolyAndCommitment"
        /\ Len0(call.polys) >= 1 /\ ret.err = "nil"
        => /\ Len0(ret.powers) = Len0(call.polys)
           /\ \A j \in DOMAIN ret.powers : ret.powers[j] = Pow(ret.r, j) % BLSModulus
           /\ ret.z = Pow(ret.r, Len0(call.polys)) % BLSModulus

\* C14: an aggregate proof requested over zero blobs succeeds: no error, the
\* all-zero 48-byte proof, an empty commitment list.
C14_EmptyAggregate ==
    pc = "called"
        /\ call.op \in {"agg_kzg.ComputeAggregateKZGProofAndCommitments",
                        "kzg.ComputeAggregateKZGProof"}
        /\ Len0(call.polys) = 0
        => ret.err = "nil" /\ ret.proof = Zeroes(G1Bytes) /\ Len0(ret.commitments) = 0
\* the same for agg_kzg alone
EmptyAggregateAgg ==
    pc = "called" /\ call.op = "agg_kzg.ComputeAggregateKZGProofAndCommitments"
        /\ Len0(call.polys) = 0
        => ret.err = "nil" /\ ret.proof = Zeroes(G1Bytes) /\ Len0(ret.commitments) = 0

\* sum_{j < n} weights[j] * points[j] in G1
RECURSIVE WeightedSum(_, _, _)
WeightedSum(points, weights, n) ==
    IF n = 0 THEN 0
    ELSE AddG1(WeightedSum(points, weights, n - 1), MulG1(points[n - 1], weights[n - 1]))
\* the points the supplied commitments of the call encode
SuppliedPoints == [j \in DOMAIN call.comms |-> FromCompressedG1(call.comms[j]).point]
\* the commitments of the blobs of the call
OwnPoints == [j \in DOMAIN call.polys |-> LinCombG1(kzgSetupLagrange, call.polys[j])]
\* the aggregated commitment the call produced, as a point
AggregatedPoint ==
    IF call.op = "ComputeAggregatedPolyAndCommitment"
    THEN FromCompressedG1(ret.commitment).point
    ELSE ret.commitment
IsAggregation ==
    pc = "called"
        /\ call.op \in {"ComputeAggregatedPolyAndCommitment", "computeAggregateKzgCommitment"}

\* C15: the aggregated commitment used in aggregate verification is
\* sum_j powers[j] * commitment_j over the commitments the caller supplied;
\* it is not recomputed from the blobs.
C15_SuppliedCommitments ==
    IsAggregation /\ ret.err = "nil"
        => AggregatedPoint = WeightedSum(SuppliedPoints, ret.powers, Len0(call.comms))
\* each path aggregated supplied commitments that are not the blobs' own
C15_Witness ==
    /\ IsAggregation /\ ret.err = "nil"
    /\ call.op = "ComputeAggregatedPolyAndCommitment"
    /\ Len0(call.comms) = MaxBlobsPerBlock
    /\ AggregatedPoint # WeightedSum(OwnPoints, ret.powers, Len0(call.comms))
SuppliedCommitmentsAggWitness ==
    /\ IsAggregation /\ ret.err = "nil"
    /\ call.op = "computeAggregateKzgCommitment"
    /\ AggregatedPoint # WeightedSum(OwnPoints, ret.powers, Len0(call.comms))

\* what the caller of an aggregate verification sees
IsVerification ==
    pc \in {"verified", "tampered"}
        /\ call.op \in {"agg_kzg.VerifyAggregateKZGProof", "kzg.VerifyAggregateKZGProof"}
Outcome ==
    IF IsPanic(ret.err) THEN "panic"
    ELSE IF call.op = "agg_kzg.VerifyAggregateKZGProof"
    THEN (IF ret.err = "nil" THEN "true"
          ELSE IF ret.err = "failed to verify kzg" THEN "false" ELSE "error")
    ELSE (IF ret.err # "nil" THEN "error" ELSE IF ret.ok THEN "true" ELSE "false")

\* In a field of BLSModulus elements the pairing equation holds by chance for
\* some altered inputs; ChanceAccept names those calls.
ChanceAccept == IsVerification /\ call.tamper # "none" /\ Outcome = "true"

\* C16: after one bit of a blob, of a commitment or of the proof of a
\* verifying aggregate is changed, aggregate verification returns false or an
\* error to its caller (stated for the altered inputs on which the pairing
\* equation does not hold by chance).
C16_TamperDetection ==
    IsVerification /\ call.tamper # "none" /\ ~ChanceAccept
        => Outcome \in {"false", "error"}
\* the same for kzg_bytes.go alone
TamperDetectionBytes ==
    IsVerification /\ call.tamper # "none" /\ ~ChanceAccept
        /\ call.op = "kzg.VerifyAggregateKZGProof"
        => Outcome \in {"false", "error"}
\* an altered proof reaches the pairing check of agg_kzg and is rejected
TamperRejectedWitness ==
    IsVerification /\ call.tamper = "proof" /\ Outcome = "false"
        /\ call.op = "agg_kzg.VerifyAggregateKZGProof"

\* some commitment handed to the call is not the encoding of a G1 point
HasBadCommitment ==
    /\ pc \in {"called", "verified", "tampered"}
    /\ call.op \in {"agg_kzg.VerifyAggregateKZGProof", "kzg.VerifyAggregateKZGProof",
                    "kzg.VerifyAggregateKZGProof of kzg_new.go",
                    "agg_kzg.ComputeAggregateKZGProof"}
    /\ \E j \in DOMAIN call.comms : FromCompressedG1(call.comms[j]).err # "nil"

\* C17: when a supplied commitment does not decompress to a G1 point,
\* aggregate verification and aggregate proof generation return an error;
\* they do not panic and do not go on with a missing or default point.
C17_BadPoint ==
    HasBadCommitment => ret.err # "nil" /\ ~IsPanic(ret.err)
\* the same for the kzg package alone: the decoding error is returned
BadPointBytes ==
    HasBadCommitment
        /\ call.op \in {"kzg.VerifyAggregateKZGProof",
                        "kzg.VerifyAggregateKZGProof of kzg_new.go"}
        => ret.err = "bad point" /\ ~ret.ok
\* the calls of agg_kzg all end in the nil dereference
BadPointAggPanics ==
    HasBadCommitment
        /\ call.op \in {"agg_kzg.VerifyAggregateKZGProof",
                        "agg_kzg.ComputeAggregateKZGProof"}
        => ret.err = "panic: nil pointer dereference"

\* ------------------------------------------------------------------------
\* Claims: package initialisation
\* ------------------------------------------------------------------------
\* the Lagrange table of the setup string being loaded
ParsedLagrange == call.parsedSetup.SetupLagrange
\* bit_reverse(i, m): the m low bits of i in reverse order
RECURSIVE BitReverse(_, _)
BitReverse(i, m) ==
    IF m = 0 THEN 0 ELSE (i % 2) * Pow(2, m - 1) + BitReverse(i \div 2, m - 1)
\* how often v occurs in the table t
Occurrences(t, v) == Cardinality({i \in DOMAIN t : t[i] = v})

\* C18: loading a Lagrange table of length 2^m stores
\* out[i] = in[bit_reverse(i, m)] for every i; the stored table is a
\* permutation of the input (same length, same multiset).
C18_BitReversal ==
    pc = "loaded" =>
        \A m \in 0 .. MaxTableLen :
            Len0(ParsedLagrange) = Pow(2, m) =>
                /\ Len0(kzgSetupLagrange) = Len0(ParsedLagrange)
                /\ \A i \in 0 .. (Pow(2, m) - 1) :
                       kzgSetupLagrange[i] = ParsedLagrange[BitReverse(i, m)]
                /\ \A v \in 0 .. (BLSModulus - 1) :
                       Occurrences(kzgSetupLagrange, v) = Occurrences(ParsedLagrange, v)
\* a table of MaxTableLen distinct points has been loaded, not in its order
C18_Witness ==
    /\ pc = "loaded"
    /\ Len0(ParsedLagrange) >= FieldElementsPerBlob
    /\ \A i, j \in DOMAIN ParsedLagrange : i # j => ParsedLagrange[i] # ParsedLagrange[j]
    /\ kzgSetupLagrange # ParsedLagrange

\* C19: loading fails whenever the parsed Lagrange table does not have
\* exactly FieldElementsPerBlob entries, and whenever its length is not a
\* power of two.
C19_LoaderRejects ==
    pc # "start" /\ call.op = "init"
        /\ (Len0(ParsedLagrange) # FieldElementsPerBlob
                \/ ~\E m \in 0 .. MaxTableLen : Len0(ParsedLagrange) = Pow(2, m))
        => pc = "aborted"
\* the part the loader enforces: a length that is neither 0 nor a power of
\* two ends the program
LoaderRejectsNonPowers ==
    pc # "start" /\ call.op = "init"
        => (pc = "aborted"
                <=> /\ Len0(ParsedLagrange) # 0
                    /\ ~\E m \in 0 .. MaxTableLen : Len0(ParsedLagrange) = Pow(2, m))

\* ------------------------------------------------------------------------
\* Claims: concurrent callers
\* ------------------------------------------------------------------------
\* the setup string the tables were loaded from: the second G1 power is the
\* secret itself
LoadedSetup == KZGSetupStr(KzgSetupG1[1])

SetupNeverWritten == [][UNCHANGED setup]_vars

\* ------------------------------------------------------------------------
\* The evaluation domain
\* ------------------------------------------------------------------------
\* omega = 7^((q-1)/N) mod q
Omega == ExpMod(PrimitiveRoot, (BLSModulus - 1) \div FieldElementsPerBlob, BLSModulus)

\* C21: once func init() has run, Domain[i] = omega^i mod q for i in [0, N)
\* in natural order with omega = 7^((q-1)/N) mod q; Domain[0] = 1, every
\* entry is an N-th root of unity and the N entries are pairwise distinct
C21_Domain ==
    pc = "loaded" =>
        /\ DOMAIN Domain = 0 .. (FieldElementsPerBlob - 1)
        /\ \A i \in DOMAIN Domain : Domain[i] = ExpMod(Omega, i, BLSModulus)
        /\ Domain[0] = 1
        /\ \A i \in DOMAIN Domain : ExpMod(Domain[i], FieldElementsPerBlob, BLSModulus) = 1
        /\ \A i, j \in DOMAIN Domain : i # j => Domain[i] # Domain[j]

\* func init() has built the domain and its generator is not the unit
C21_Witness ==
    /\ pc = "loaded"
    /\ Domain[1] = Omega
    /\ Domain[1] # 1

\* ------------------------------------------------------------------------
\* Calls: linear combinations of polynomials and their evaluation
\* ------------------------------------------------------------------------
\* largest small scalar of a linear combination
MaxScalar == 3
\* the scalars of a linear combination: the small ones and -1
LinScalars == (0 .. MaxScalar) \cup {BLSModulus - 1}
\* the lists of polynomials combined: none, one, or one and a unit polynomial
LinVectors ==
    {Empty0} \cup {[i \in 0 .. 0 |-> p] : p \in FsPolys}
        \cup {[i \in 0 .. 1 |-> IF i = 0 THEN p ELSE u] : p \in FsPolys, u \in UnitPolys}

\* kzg.MatrixLinComb(vectors, scalars)
MatrixLinCombCall ==
    /\ pc = "idle"
    /\ \E vectors \in LinVectors : \E scalars \in [DOMAIN vectors -> LinScalars] :
        /\ call' = [op |-> "MatrixLinComb", vectors |-> vectors, scalars |-> scalars]
        /\ ret' = IF MatrixLinCombPanics(vectors, scalars)
                  THEN [err |-> "panic: index out of range", r |-> Empty0]
                  ELSE [err |-> "nil", r |-> MatrixLinComb(vectors, scalars)]
    /\ pc' = "called"
    /\ UNCHANGED setup

\* kzg.EvaluatePolyInEvaluationForm at one point z, of a combination
\* a*p + b*q returned by MatrixLinComb and of p and q
EvaluateCombinationCall ==
    /\ pc = "called"
    /\ call.op = "MatrixLinComb"
    /\ Len0(call.vectors) = 2
    /\ ret.err = "nil"
    /\ \E z \in Fr :
        /\ call' = call @@ [z |-> z]
        /\ ret' = [err |-> "nil", r |-> ret.r,
                   yR |-> EvaluatePolyInEvaluationForm(ret.r, z),
                   yP |-> EvaluatePolyInEvaluationForm(call.vectors[0], z),
                   yQ |-> EvaluatePolyInEvaluationForm(call.vectors[1], z)]
    /\ pc' = "evaluated"
    /\ UNCHANGED setup

NextLin ==
    \/ MatrixLinCombCall
    \/ EvaluateCombinationCall
    \/ Return

SpecLin == Init /\ [][NextLin]_vars

\* sum_{i < n} scalars[i] * vectors[i][j], over the integers
RECURSIVE CoordSum(_, _, _, _)
CoordSum(vectors, scalars, j, n) ==
    IF n = 0 THEN 0
    ELSE CoordSum(vectors, scalars, j, n - 1) + scalars[n - 1] * vectors[n - 1][j]

\* C22: MatrixLinComb(polys, scalars) returns the vector whose j-th
\* coordinate is sum_i scalars[i] * polys[i][j] mod q for k polynomials of
\* length N; for k = 0 it returns the zero polynomial of length N and does
\* not fail
C22_MatrixLinComb ==
    pc = "called" /\ call.op = "MatrixLinComb"
        => /\ ret.err = "nil"
           /\ ret.r = [j \in 0 .. (FieldElementsPerBlob - 1) |->
                         CoordSum(call.vectors, call.scalars, j, Len0(call.vectors))
                             % BLSModulus]
\* the same for k >= 1 polynomials
MatrixLinCombNonEmpty ==
    pc = "called" /\ call.op = "MatrixLinComb" /\ Len0(call.vectors) >= 1
        => /\ ret.err = "nil"
           /\ ret.r = [j \in 0 .. (FieldElementsPerBlob - 1) |->
                         CoordSum(call.vectors, call.scalars, j, Len0(call.vectors))
                             % BLSModulus]
\* for k = 0 the call panics
MatrixLinCombEmptyPanics ==
    pc = "called" /\ call.op = "MatrixLinComb" /\ Len0(call.vectors) = 0
        => IsPanic(ret.err)

\* C23: evaluate(a*p + b*q, z) = a*evaluate(p, z) + b*evaluate(q, z) mod q
\* for length-N polynomials p, q, scalars a, b and every point z
C23_Linearity ==
    pc = "evaluated"
        => /\ ~ret.yR.panic /\ ~ret.yP.panic /\ ~ret.yQ.panic
           /\ ret.yR.y = (call.scalars[0] * ret.yP.y + call.scalars[1] * ret.yQ.y)
                              % BLSModulus

\* a combination with two non-zero scalars and non-zero values of p and q,
\* evaluated off the domain
C23_Witness ==
    /\ pc = "evaluated"
    /\ call.scalars[0] > 1 /\ call.scalars[1] > 1
    /\ ~InDomain(call.z)
    /\ ret.yP.y # 0 /\ ret.yQ.y # 0 /\ ret.yP.y # ret.yQ.y
    /\ ret.yR.y # 0

\* ------------------------------------------------------------------------
\* Calls: proofs over polynomials of any length, statement by statement
\* ------------------------------------------------------------------------
\* the polynomials of length N - 1, N and N + 1
LenPolys ==
    UNION {[0 .. (n - 1) -> 0 .. MaxBlobElem] :
            n \in (FieldElementsPerBlob - 1) .. (FieldElementsPerBlob + 1)}

\* a call enters one of the three functions; call.work lists what has been
\* done with the elements of the polynomial so far
EnterCall ==
    /\ pc = "idle"
    /\ \E op \in {"ComputeProof", "ComputeKZGProof", "EvaluatePolyInEvaluationForm"} :
        \E poly \in LenPolys, z \in Fr :
            /\ call' = [op |-> op, poly |-> poly, z |-> z, work |-> <<>>]
            /\ pc' = IF op = "ComputeKZGProof" THEN "evaluate" ELSE "check"
    /\ ret' = [err |-> "nil"]
    /\ UNCHANGED setup

\* kzg.ComputeProof and kzg.EvaluatePolyInEvaluationForm: the length check
\* is the first statement
CheckLengthFirst ==
    /\ pc = "check"
    /\ call.op \in {"ComputeProof", "EvaluatePolyInEvaluationForm"}
    /\ IF Len0(call.poly) # FieldElementsPerBlob
       THEN /\ pc' = "called"
            /\ ret' = IF call.op = "ComputeProof"
                      THEN ComputeProof(call.poly, call.z)
                      ELSE EvaluatePolyInEvaluationForm(call.poly, call.z)
            /\ UNCHANGED call
       ELSE /\ pc' = "body"
            /\ UNCHANGED <<call, ret>>
    /\ UNCHANGED setup

\* the rest of kzg.ComputeProof and kzg.EvaluatePolyInEvaluationForm
Body ==
    /\ pc = "body"
    /\ IF call.op = "ComputeProof"
       THEN /\ ret' = ComputeProof(call.poly, call.z)
            /\ call' = [call EXCEPT !.work =
                            <<"frToBig", "EvaluatePolyInEvaluationForm", "Sub">>
                                \o (IF ret'.err = "nil" THEN <<"blsDiv", "LinCombG1">>
                                    ELSE <<>>)]
       ELSE /\ ret' = EvaluatePolyInEvaluationForm(call.poly, call.z)
            /\ call' = [call EXCEPT !.work = <<"frToBig", "blsDiv">>]
    /\ pc' = "called"
    /\ UNCHANGED setup

\* bls.EvaluatePolyInEvaluationForm reads DomainFr[i] for every i < len(poly)
EvaluatePolynomialInEvaluationFormPanics(poly) == Len0(poly) > Len0(DomainFr)

\* kzg.ComputeKZGProof (kzg_new.go), first statement:
\* y := EvaluatePolynomialInEvaluationForm(polynomial, z)
Evaluate ==
    /\ pc = "evaluate"
    /\ IF EvaluatePolynomialInEvaluationFormPanics(call.poly)
       THEN /\ pc' = "called"
            /\ ret' = [err |-> "panic: index out of range", proof |-> Zeroes(G1Bytes)]
            /\ call' = [call EXCEPT !.work = <<"MulModFr", "DivModFr">>]
       ELSE /\ pc' = "shift"
            /\ ret' = [err |-> "nil",
                       y |-> EvaluatePolynomialInEvaluationForm(call.poly, call.z)]
            /\ call' = [call EXCEPT !.work = <<"MulModFr", "DivModFr">>]
    /\ UNCHANGED setup

\* kzg.ComputeKZGProof, the loop filling polynomialShifted
Shift ==
    /\ pc = "shift"
    /\ ret' = ret @@ [polynomialShifted |->
                        [i \in DOMAIN call.poly |-> SubModFr(call.poly[i], ret.y)]]
    /\ call' = [call EXCEPT !.work = @ \o <<"SubModFr">>]
    /\ pc' = "lengthcheck"
    /\ UNCHANGED setup

\* kzg.ComputeKZGProof, the length check and the rest of the function
CheckLengthAndFinish ==
    /\ pc = "lengthcheck"
    /\ ret' = ComputeKZGProof(call.poly, call.z)
    /\ call' = [call EXCEPT !.work =
                    IF ret'.err = "nil" THEN @ \o <<"DivModFr", "LinCombG1">> ELSE @]
    /\ pc' = "called"
    /\ UNCHANGED setup

NextLen ==
    \/ EnterCall
    \/ CheckLengthFirst
    \/ Body
    \/ Evaluate
    \/ Shift
    \/ CheckLengthAndFinish
    \/ Return

SpecLen == Init /\ [][NextLen]_vars

\* the call is one on a polynomial whose length is not N
BadLengthCall(ops) ==
    /\ pc # "idle"
    /\ call.op \in ops
    /\ Len0(call.poly) # FieldElementsPerBlob

\* the finished call reports the invalid length: the error of ComputeProof
\* and ComputeKZGProof, the panic of EvaluatePolyInEvaluationForm
ReportsBadLength ==
    CASE call.op = "ComputeProof" -> ret.err = "invalid eval polynomial for proof"
      [] call.op = "ComputeKZGProof" -> ret.err = "polynomial has invalid length"
      [] OTHER -> ret.panic

\* C24: a proof requested for a polynomial whose length is not N returns
\* the invalid-length error (evaluate panics), and nothing is done with the
\* elements of the polynomial before that: no field arithmetic, no indexing,
\* no multi-scalar multiplication
C24_LengthFirst ==
    BadLengthCall({"ComputeProof", "ComputeKZGProof", "EvaluatePolyInEvaluationForm"})
        => /\ call.work = <<>>
           /\ pc = "called" => ReportsBadLength
\* the same for ComputeProof of kzg.go and EvaluatePolyInEvaluationForm
LengthFirstBigInt ==
    BadLengthCall({"ComputeProof", "EvaluatePolyInEvaluationForm"})
        => /\ call.work = <<>>
           /\ pc = "called" => ReportsBadLength
\* ComputeKZGProof of kzg_new.go has evaluated the polynomial, or panicked,
\* when it finishes on a polynomial whose length is not N
LengthLastNew ==
    BadLengthCall({"ComputeKZGProof"}) /\ pc = "called"
        => /\ call.work # <<>>
           /\ \/ ret.err = "polynomial has invalid length"
              \/ IsPanic(ret.err)

\* ------------------------------------------------------------------------
\* The two commitment paths (BenchmarkVerifyKzgProof)
\* ------------------------------------------------------------------------
\* bls.EvalPolyAt: the value at x of a polynomial in coefficient form
RECURSIVE EvalPolyUpto(_, _, _)
EvalPolyUpto(coeffs, x, n) ==
    IF n = 0 THEN 0
    ELSE AddModFr(EvalPolyUpto(coeffs, x, n - 1),
                  MulModFr(coeffs[n - 1], ExpMod(x, n - 1, BLSModulus)))
EvalPolyAt(coeffs, x) == EvalPolyUpto(coeffs, x, Len0(coeffs))

\* fs.FFT(polynomial, false): the values of the polynomial at the N-th roots
\* of unity, in natural order
FFT(coeffs) ==
    LET w == ExpMod(PrimitiveRoot, (BLSModulus - 1) \div Len0(coeffs), BLSModulus)
    IN  [i \in DOMAIN coeffs |-> EvalPolyAt(coeffs, ExpMod(w, i, BLSModulus))]

\* the quotient of (f(X) - f(x)) by (X - x), in coefficient form
RECURSIVE QuotientCoeff(_, _, _)
QuotientCoeff(coeffs, x, i) ==
    IF i >= Len0(coeffs) - 1 THEN 0
    ELSE AddModFr(coeffs[i + 1], MulModFr(x, QuotientCoeff(coeffs, x, i + 1)))

\* ComputeProof(poly, x, crsG1) of the benchmarks: the commitment of the
\* quotient against the monomial setup
CoefficientProof(poly, x, crsG1) ==
    LET quotientPolynomial ==
            [i \in 0 .. (Len0(poly) - 2) |-> QuotientCoeff(poly, x, i)]
        crs == [i \in DOMAIN quotientPolynomial |-> crsG1[i]]
    IN  LinCombG1(crs, quotientPolynomial)

\* BenchmarkVerifyKzgProof, up to the commitment: the test polynomial, its
\* evaluation form and kzg.BlobToKzg(evalPoly)
BenchCommit ==
    /\ pc = "idle"
    /\ \E polynomial \in Polys :
        LET evalPoly == FFT(polynomial)
        IN  /\ call' = [op |-> "BenchmarkVerifyKzgProof", polynomial |-> polynomial]
            /\ ret' = [err |-> "nil", evalPoly |-> evalPoly,
                       commitment |-> BlobToKzg(evalPoly)]
    /\ pc' = "committed"
    /\ UNCHANGED setup

\* BenchmarkVerifyKzgProof: the proof at x from the monomial setup and the
\* value at x
BenchProve ==
    /\ pc = "committed"
    /\ \E x \in Fr :
        /\ call' = call @@ [x |-> x]
        /\ ret' = ret @@ [proof |-> CoefficientProof(call.polynomial, x, KzgSetupG1),
                          value |-> EvalPolyAt(call.polynomial, x)]
    /\ pc' = "proved"
    /\ UNCHANGED setup

\* BenchmarkVerifyKzgProof: kzg.VerifyKzgProof(commitment, &xFr, &value, proof)
BenchVerify ==
    /\ pc = "proved"
    /\ ret' = ret @@ [ok |-> VerifyKzgProof(ret.commitment, call.x, ret.value, ret.proof)]
    /\ pc' = "benchmarked"
    /\ UNCHANGED <<call, setup>>

NextPaths ==
    \/ BenchCommit
    \/ BenchProve
    \/ BenchVerify
    \/ Return

SpecPaths == Init /\ [][NextPaths]_vars

\* C25: for every coefficient-form polynomial f of length N the
\* evaluation-form commitment (FFT(f) against the Lagrange setup) equals the
\* coefficient-form commitment (f against the monomial setup), and the proof
\* generated from f and the monomial setup at x verifies against the
\* evaluation-form commitment with the value f(x)
C25_CommitmentPaths ==
    /\ pc \in {"committed", "proved", "benchmarked"}
           => ret.commitment = LinCombG1(KzgSetupG1, call.polynomial)
    /\ pc = "benchmarked" => ret.ok

\* a polynomial of degree N - 1 with a non-zero commitment, opened at a
\* point where its value is not zero, has been verified
C25_Witness ==
    /\ pc = "benchmarked"
    /\ call.polynomial[FieldElementsPerBlob - 1] # 0
    /\ call.polynomial[1] # 0
    /\ ret.commitment # 0
    /\ ret.value # 0
    /\ ret.proof # 0
    /\ ret.ok

\* ------------------------------------------------------------------------
\* Order of the checks of the point-evaluation precompile
\* ------------------------------------------------------------------------
\* the versioned hash the called precompile computes for the commitment of
\* its input
ComputedHash ==
    IF call.op = "PointEvaluationPrecompile" THEN KZGToVersionedHash(InputKZG)
    ELSE KZGToVersionedHashNew(InputKZG)
\* z or y of the input is not canonical
NonCanonicalInput ==
    \/ LittleEndianValue(InputZ) >= BLSModulus
    \/ LittleEndianValue(InputY) >= BLSModulus
\* the call was rejected with the error of the decoder of z or of y
FieldDecodingError ==
    /\ ret.outNil
    /\ \/ ret.err \in {"invalid evaluation point", "invalid expected output"}
       \/ /\ ret.err = "verify_kzg_proof error"
          /\ ret.cause \in {"invalid evaluation point", "invalid expected output"}
\* C or the proof of the input is not the encoding of a point
UndecodablePoint ==
    \/ FromCompressedG1(InputKZG).err # "nil"
    \/ FromCompressedG1(InputProof).err # "nil"

\* C26: on an input of PrecompileInputLength bytes z and y are decoded and
\* checked before the versioned hash is compared: a non-canonical z or y is
\* rejected with the field-decoding error even when the hash mismatches;
\* and the hash is compared before C and the proof are decompressed: with
\* canonical z and y a mismatching hash is reported even when C or the
\* proof does not decode
C26_CheckOrder ==
    IsPrecompileCall /\ Len(call.input) = PrecompileInputLength
        => /\ NonCanonicalInput => FieldDecodingError
           /\ ~NonCanonicalInput /\ ComputedHash # InputHash
                => ret = Failure("mismatched versioned hash", "nil")
\* the same for PointEvaluationPrecompile of kzg_new.go alone
CheckOrderNew ==
    pc = "called" /\ call.op = "PointEvaluationPrecompileNew"
        /\ Len(call.input) = PrecompileInputLength
        => /\ NonCanonicalInput => FieldDecodingError
           /\ ~NonCanonicalInput /\ ComputedHash # InputHash
                => ret = Failure("mismatched versioned hash", "nil")
\* PointEvaluationPrecompile of kzg_bytes.go compares the hash first: a
\* mismatching hash is reported whatever z, y, C and the proof are
HashFirstBytes ==
    pc = "called" /\ call.op = "PointEvaluationPrecompile"
        /\ Len(call.input) = PrecompileInputLength
        /\ ComputedHash # InputHash
        => ret = Failure("mismatched versioned hash", "nil")
\* such a call: non-canonical z, mismatching hash, undecodable proof
HashFirstBytesWitness ==
    /\ pc = "called" /\ call.op = "PointEvaluationPrecompile"
    /\ Len(call.input) = PrecompileInputLength
    /\ ComputedHash # InputHash
    /\ LittleEndianValue(InputZ) >= BLSModulus
    /\ UndecodablePoint

\* ------------------------------------------------------------------------
\* Calls: validation of a blobs sidecar and of the blobs of a transaction
\* ------------------------------------------------------------------------
\* slots and block roots
Slots == {0, 1}
Roots == {0, 1}

\* a list without its last element, and a list with one more element
DropLast(l) == [i \in 0 .. (Len0(l) - 2) |-> l[i]]
Append0(l, e) == [i \in 0 .. Len0(l) |-> IF i < Len0(l) THEN l[i] ELSE e]
\* a list whose first element, if any, is replaced
ReplaceFirst(l, e) == [i \in DOMAIN l |-> IF i = 0 THEN e ELSE l[i]]
\* the lists built from l: itself, shortened, first element replaced
ListChoices(l, e) ==
    {l} \cup (IF Len0(l) > 0 THEN {DropLast(l), ReplaceFirst(l, e)} ELSE {})

\* variant of the checks of ValidateBlobsSidecar: the length is not compared
ValidateBlobsSidecarNoLength(slot, beaconBlockRoot, expectedKZGCommitments, blobsSidecar) ==
    IF slot # blobsSidecar.BeaconBlockSlot
    THEN "slot doesn't match sidecar's beacon block slot"
    ELSE IF beaconBlockRoot # blobsSidecar.BeaconBlockRoot
    THEN "roots not equal"
    ELSE "nil"

\* ValidateBlobsSidecar, the checks before VerifyAggregateKZGProof: the
\* error returned, "nil" when the function goes on
ValidateBlobsSidecarChecks(slot, beaconBlockRoot, expectedKZGCommitments, blobsSidecar) ==
    IF slot # blobsSidecar.BeaconBlockSlot
    THEN "slot doesn't match sidecar's beacon block slot"
    ELSE IF beaconBlockRoot # blobsSidecar.BeaconBlockRoot
    THEN "roots not equal"
    ELSE IF Len0(blobsSidecar.Blobs) # Len0(expectedKZGCommitments)
    THEN "blob len doesn't match expected kzg commitments len"
    ELSE "nil"

\* kzg.ValidateBlobsSidecar(slot, beaconBlockRoot, expectedKZGCommitments,
\* blobsSidecar) on a sidecar made of the blobs and the proof
\* ComputeAggregateKZGProof just returned: the checks of slot, root and
\* length; call.invoked: VerifyAggregateKZGProof has been called
ValidateBlobsSidecarEnter ==
    /\ pc = "called"
    /\ call.op = "kzg.ComputeAggregateKZGProof"
    /\ TamperCase
    /\ \E slot \in Slots, sidecarSlot \in Slots, root \in Roots, sidecarRoot \in Roots :
        \E comms \in ListChoices(ret.commitments, ToCompressedG1(GenG1)) :
        \E proof \in {ret.proof, ToCompressedG1(GenG1)} :
            LET blobsSidecar ==
                    [BeaconBlockRoot |-> sidecarRoot, BeaconBlockSlot |-> sidecarSlot,
                     Blobs |-> [i \in DOMAIN call.polys |-> BlobOf(call.polys[i])],
                     KZGAggregatedProof |-> proof]
                err == ValidateBlobsSidecarChecks(slot, root, comms, blobsSidecar)
            IN  /\ call' = [op |-> "ValidateBlobsSidecar", slot |-> slot,
                            beaconBlockRoot |-> root,
                            expectedKZGCommitments |-> comms,
                            blobsSidecar |-> blobsSidecar, invoked |-> FALSE]
                /\ ret' = [err |-> err, cause |-> "nil"]
                /\ pc' = IF err = "nil" THEN "verifying" ELSE "called"
    /\ UNCHANGED setup

\* kzg.ValidateBlobsSidecar, from the call of VerifyAggregateKZGProof on
\* to its end
ValidateBlobsSidecarVerify ==
    /\ pc = "verifying"
    /\ call.op = "ValidateBlobsSidecar"
    /\ LET v == BytesVerifyAggregateKZGProof(call.blobsSidecar.Blobs,
                                             call.expectedKZGCommitments,
                                             call.blobsSidecar.KZGAggregatedProof)
       IN  ret' = IF v.err # "nil"
                  THEN [err |-> "verify_aggregate_kzg_proof error", cause |-> v.err]
                  ELSE IF ~v.ok THEN [err |-> "invalid kzg proof", cause |-> "nil"]
                  ELSE [err |-> "nil", cause |-> "nil"]
    /\ call' = [call EXCEPT !.invoked = TRUE]
    /\ pc' = "called"
    /\ UNCHANGED setup

\* ComputeVersionHashes: the versioned hash of every commitment
ComputeVersionHashes(commitments) ==
    [i \in DOMAIN commitments |-> ComputeVersionedHash(commitments[i])]

\* variant of verifyVersionedHash: the hashes are counted, not compared
verifyVersionedHashCounts(b, inner) ==
    IF ~inner.isSignedBlobTx THEN "expected signed blob tx"
    ELSE IF Len0(inner.BlobVersionedHashes) > MaxBlobsPerBlock
    THEN "too many blobs in blob tx"
    ELSE IF Len0(b.BlobKzgs) # Len0(b.Blobs)
    THEN "expected equal amount of kzgs and blobs"
    ELSE IF Len0(b.BlobKzgs) # Len0(inner.BlobVersionedHashes)
    THEN "expected equal amount of kzgs and versioned hashes"
    ELSE "nil"

\* BlobTxWrapData.verifyVersionedHash(inner): the error returned
verifyVersionedHash(b, inner) ==
    IF ~inner.isSignedBlobTx THEN "expected signed blob tx"
    ELSE IF Len0(inner.BlobVersionedHashes) > MaxBlobsPerBlock
    THEN "too many blobs in blob tx"
    ELSE IF Len0(b.BlobKzgs) # Len0(b.Blobs)
    THEN "expected equal amount of kzgs and blobs"
    ELSE IF Len0(b.BlobKzgs) # Len0(inner.BlobVersionedHashes)
    THEN "expected equal amount of kzgs and versioned hashes"
    ELSE IF \E i \in DOMAIN inner.BlobVersionedHashes :
                ComputeVersionedHash(b.BlobKzgs[i]) # inner.BlobVersionedHashes[i]
    THEN "versioned hash does not match computed"
    ELSE "nil"

\* the lists of versioned hashes a transaction carries for the commitments:
\* the computed ones, one more, one fewer, the first one altered
HashLists(kzgs) ==
    LET computed == ComputeVersionHashes(kzgs)
    IN  {computed, Append0(computed, Zeroes(HashBytes))}
            \cup (IF Len0(kzgs) > 0
                  THEN {DropLast(computed),
                        ReplaceFirst(computed, Sha256(kzgs[0]))}
                  ELSE {})

\* BlobTxWrapData.verifyBlobs(inner) on wrap data made of the blobs, the
\* commitments and the proof ComputeAggregateKZGProofAndCommitments just
\* returned: verifyVersionedHash; call.invoked: VerifyAggregateKZGProof of
\* agg_kzg has been called
verifyBlobsEnter ==
    /\ pc = "called"
    /\ call.op = "agg_kzg.ComputeAggregateKZGProofAndCommitments"
    /\ ret.err = "nil"
    /\ TamperCase
    /\ \E isSignedBlobTx \in BOOLEAN :
        \E kzgs \in ListChoices(ret.commitments, ToCompressedG1(GenG1)) :
        \E hashes \in HashLists(kzgs) \cup HashLists(ret.commitments) :
        \E proof \in {ret.proof, ToCompressedG1(GenG1)} :
            LET b == [BlobKzgs |-> kzgs, Blobs |-> call.blobs,
                      KzgAggregatedProof |-> proof]
                inner == [isSignedBlobTx |-> isSignedBlobTx,
                          BlobVersionedHashes |-> hashes]
                err == verifyVersionedHash(b, inner)
            IN  /\ call' = [op |-> "verifyBlobs", b |-> b, inner |-> inner,
                            invoked |-> FALSE]
                /\ ret' = [err |-> err]
                /\ pc' = IF err = "nil" THEN "verifying" ELSE "called"
    /\ UNCHANGED setup

\* BlobTxWrapData.verifyBlobs, from toBlobs on
verifyBlobsVerify ==
    /\ pc = "verifying"
    /\ call.op = "verifyBlobs"
    /\ ret' = [err |-> AggVerifyAggregateKZGProof(call.b.Blobs, call.b.BlobKzgs,
                                                  call.b.KzgAggregatedProof)]
    /\ call' = [call EXCEPT !.invoked = TRUE]
    /\ pc' = "called"
    /\ UNCHANGED setup

NextSidecar ==
    \/ NewGenerateCall
    \/ AggGenerateCall
    \/ ValidateBlobsSidecarEnter
    \/ ValidateBlobsSidecarVerify
    \/ verifyBlobsEnter
    \/ verifyBlobsVerify
    \/ Return

SpecSidecar == Init /\ [][NextSidecar]_vars

\* a call of ValidateBlobsSidecar has returned
IsSidecarCall == pc = "called" /\ call.op = "ValidateBlobsSidecar"
SlotMatches == call.slot = call.blobsSidecar.BeaconBlockSlot
RootMatches == call.beaconBlockRoot = call.blobsSidecar.BeaconBlockRoot
LengthMatches == Len0(call.blobsSidecar.Blobs) = Len0(call.expectedKZGCommitments)
\* VerifyAggregateKZGProof accepts the sidecar's blobs and proof for the
\* expected commitments
SidecarProofVerifies ==
    LET v == BytesVerifyAggregateKZGProof(call.blobsSidecar.Blobs,
                                          call.expectedKZGCommitments,
                                          call.blobsSidecar.KZGAggregatedProof)
    IN  v.err = "nil" /\ v.ok

\* C27: ValidateBlobsSidecar returns nil if and only if the slot equals the
\* sidecar slot, the block root equals the sidecar root, the number of
\* blobs equals the number of expected commitments and the aggregate proof
\* verifies; the checks run in that order, the first failing one
\* determines the error, and the aggregate verification is not invoked
\* when the slot, root or length check fails
C27_SidecarChecks ==
    /\ IsSidecarCall
        => /\ ret.err = "nil"
                <=> SlotMatches /\ RootMatches /\ LengthMatches /\ SidecarProofVerifies
           /\ ~SlotMatches
                => ret.err = "slot doesn't match sidecar's beacon block slot"
           /\ SlotMatches /\ ~RootMatches => ret.err = "roots not equal"
           /\ SlotMatches /\ RootMatches /\ ~LengthMatches
                => ret.err = "blob len doesn't match expected kzg commitments len"
           /\ SlotMatches /\ RootMatches /\ LengthMatches /\ ~SidecarProofVerifies
                => ret.err \in {"verify_aggregate_kzg_proof error", "invalid kzg proof"}
           /\ call.invoked <=> SlotMatches /\ RootMatches /\ LengthMatches
    /\ pc = "verifying" /\ call.op = "ValidateBlobsSidecar"
        => SlotMatches /\ RootMatches /\ LengthMatches /\ ~call.invoked

\* a sidecar of two blobs was accepted after its proof was verified
C27_Witness ==
    /\ IsSidecarCall
    /\ Len0(call.blobsSidecar.Blobs) = MaxBlobsPerBlock
    /\ call.invoked
    /\ ret.err = "nil"
\* a sidecar with one commitment fewer than blobs, and a proof that would
\* not decode as an aggregate of them, was rejected for its length
SidecarLengthWitness ==
    /\ IsSidecarCall
    /\ SlotMatches /\ RootMatches
    /\ Len0(call.expectedKZGCommitments) < Len0(call.blobsSidecar.Blobs)
    /\ ~call.invoked
    /\ ret.err = "blob len doesn't match expected kzg commitments len"

\* a call of verifyBlobs has returned
IsVerifyBlobsCall == pc = "called" /\ call.op = "verifyBlobs"
\* the counts of the wrap data and the transaction agree and are allowed
CountsMatch ==
    /\ Len0(call.inner.BlobVersionedHashes) <= MaxBlobsPerBlock
    /\ Len0(call.b.BlobKzgs) = Len0(call.b.Blobs)
    /\ Len0(call.b.BlobKzgs) = Len0(call.inner.BlobVersionedHashes)
\* versioned hash i is the one computed from commitment i
HashesMatch ==
    \A i \in DOMAIN call.inner.BlobVersionedHashes :
        call.inner.BlobVersionedHashes[i] = SetVersion(Keccak256Hash(call.b.BlobKzgs[i]))

\* C28: verifyBlobs returns nil only if the transaction has at most
\* MaxBlobsPerBlock versioned hashes, the numbers of commitments, blobs and
\* versioned hashes are equal, every versioned hash i is the one computed
\* from commitment i and the aggregated proof verifies; the count and hash
\* checks come first and the aggregate verification is not invoked when
\* one of them fails
C28_VerifyBlobs ==
    /\ IsVerifyBlobsCall
        => /\ ret.err = "nil"
                => /\ CountsMatch
                   /\ HashesMatch
                   /\ AggVerifyAggregateKZGProof(call.b.Blobs, call.b.BlobKzgs,
                                                 call.b.KzgAggregatedProof) = "nil"
           /\ call.invoked => CountsMatch /\ HashesMatch
    /\ pc = "verifying" /\ call.op = "verifyBlobs"
        => CountsMatch /\ HashesMatch /\ ~call.invoked

\* the blobs of a transaction with two blobs were accepted after the
\* aggregated proof was verified
C28_Witness ==
    /\ IsVerifyBlobsCall
    /\ Len0(call.b.Blobs) = MaxBlobsPerBlock
    /\ call.invoked
    /\ ret.err = "nil"
\* a transaction whose first versioned hash is not the computed one was
\* rejected without the aggregated proof being verified
VerifyBlobsHashWitness ==
    /\ IsVerifyBlobsCall
    /\ CountsMatch /\ ~HashesMatch
    /\ ~call.invoked
    /\ ret.err = "versioned hash does not match computed"

\* ------------------------------------------------------------------------
\* The stateless witness and its external forms
\* ------------------------------------------------------------------------
\* A Witness holds a list of headers and two sets of byte strings (Go maps
\* keyed by string); an extWitness and a StatelessWitnessV1 hold lists.

\* largest number of codes a witness holds
MaxNodes == 2
\* the byte strings of the codes, and of the state nodes
CodeStrings == UNION {[1 .. n -> {0, 1}] : n \in 0 .. 2}
NodeStrings == {<<>>, <<1>>, <<1, 0>>}
\* the header lists
HeaderLists ==
    {Empty0} \cup {[i \in 0 .. 0 |-> [Number |-> n]] : n \in {0, 1}}
        \cup {[i \in 0 .. 1 |-> [Number |-> 1 - i]]}
Witnesses ==
    [Headers : HeaderLists,
     Codes : {c \in SUBSET CodeStrings : Cardinality(c) <= MaxNodes},
     State : SUBSET NodeStrings]

\* the orders in which a range over a map may visit its keys
Enumerations(keys) ==
    {f \in [0 .. (Cardinality(keys) - 1) -> keys] :
        \A i, j \in DOMAIN f : i # j => f[i] # f[j]}

\* bytes.Compare
RECURSIVE BytesCompare(_, _)
BytesCompare(a, b) ==
    IF a = b THEN 0
    ELSE IF Len(a) = 0 THEN -1
    ELSE IF Len(b) = 0 THEN 1
    ELSE IF a[1] < b[1] THEN -1
    ELSE IF a[1] > b[1] THEN 1
    ELSE BytesCompare(Tail(a), Tail(b))

\* slices.SortFunc(l, bytes.Compare): the first n elements of l, sorted
RECURSIVE SortUpto(_, _)
SortUpto(l, n) ==
    IF n = 0 THEN Empty0
    ELSE LET s == SortUpto(l, n - 1)
             e == l[n - 1]
             k == Cardinality({i \in DOMAIN s : BytesCompare(s[i], e) <= 0})
         IN  [i \in 0 .. Len0(s) |->
                IF i < k THEN s[i] ELSE IF i = k THEN e ELSE s[i - 1]]
\* variant of SortFunc: the list is left as it is
SortFuncNoSort(l) == l
SortFunc(l) == SortUpto(l, Len0(l))

\* Witness.toExtWitness; codes and nodes: the order in which the two range
\* loops visit the maps
toExtWitness(w, codes, nodes) ==
    [Headers |-> w.Headers, Codes |-> SortFunc(codes), State |-> SortFunc(nodes)]

\* Witness.fromExtWitness(ext): the witness
fromExtWitness(ext) ==
    [Headers |-> ext.Headers,
     Codes |-> {ext.Codes[i] : i \in DOMAIN ext.Codes},
     State |-> {ext.State[i] : i \in DOMAIN ext.State}]

\* rlp.EncodeToBytes(header): a list prefix holding the payload length, then
\* the payload
EncodeToBytes(header) == <<1, header.Number>>
\* rlp.DecodeBytes(blob, header)
DecodeBytes(blob) ==
    IF Len(blob) = 2 /\ blob[1] = 1
    THEN [err |-> "nil", header |-> [Number |-> blob[2]]]
    ELSE [err |-> "rlp: decoding error", header |-> [Number |-> 0]]

\* Witness.ToStatelessWitnessV1
ToStatelessWitnessV1(w, codes, nodes) ==
    LET ext == toExtWitness(w, codes, nodes)
    IN  [Headers |-> [i \in DOMAIN ext.Headers |-> EncodeToBytes(ext.Headers[i])],
         Codes |-> [i \in DOMAIN ext.Codes |-> ext.Codes[i]],
         State |-> [i \in DOMAIN ext.State |-> ext.State[i]]]

\* Witness.FromStatelessWitnessV1(witness): (err, w); the two copy loops
\* range over ext.Codes and ext.State, whose elements are the nil slices
\* make() has put there, and string(nil) is the empty string
FromStatelessWitnessV1(witness) ==
    LET headers == [i \in DOMAIN witness.Headers |-> DecodeBytes(witness.Headers[i])]
        ext == [Headers |-> [i \in DOMAIN headers |-> headers[i].header],
                Codes |-> [i \in DOMAIN witness.Codes |-> <<>>],
                State |-> [i \in DOMAIN witness.State |-> <<>>]]
    IN  IF \E i \in DOMAIN headers : headers[i].err # "nil"
        THEN [err |-> "rlp: decoding error",
              w |-> [Headers |-> Empty0, Codes |-> {}, State |-> {}]]
        ELSE [err |-> "nil", w |-> fromExtWitness(ext)]

\* w.toExtWitness()
toExtWitnessCall ==
    /\ pc = "idle"
    /\ \E w \in Witnesses :
        \E codes \in Enumerations(w.Codes), nodes \in Enumerations(w.State) :
            /\ call' = [op |-> "toExtWitness", w |-> w, codes |-> codes, nodes |-> nodes]
            /\ ret' = [err |-> "nil", ext |-> toExtWitness(w, codes, nodes)]
    /\ pc' = "called"
    /\ UNCHANGED setup

\* fromExtWitness on the extWitness just returned
fromExtWitnessCall ==
    /\ pc = "called"
    /\ call.op = "toExtWitness"
    /\ call' = [op |-> "fromExtWitness", w |-> call.w, ext |-> ret.ext]
    /\ ret' = [err |-> "nil", w |-> fromExtWitness(ret.ext)]
    /\ pc' = "converted"
    /\ UNCHANGED setup

\* w.ToStatelessWitnessV1()
ToStatelessWitnessV1Call ==
    /\ pc = "idle"
    /\ \E w \in Witnesses :
        \E codes \in Enumerations(w.Codes), nodes \in Enumerations(w.State) :
            /\ call' = [op |-> "ToStatelessWitnessV1", w |-> w,
                        codes |-> codes, nodes |-> nodes]
            /\ ret' = [err |-> "nil", witness |-> ToStatelessWitnessV1(w, codes, nodes)]
    /\ pc' = "called"
    /\ UNCHANGED setup

\* FromStatelessWitnessV1 on the StatelessWitnessV1 just returned
FromStatelessWitnessV1Call ==
    /\ pc = "called"
    /\ call.op = "ToStatelessWitnessV1"
    /\ call' = [op |-> "FromStatelessWitnessV1", w |-> call.w, witness |-> ret.witness]
    /\ ret' = FromStatelessWitnessV1(ret.witness)
    /\ pc' = "converted"
    /\ UNCHANGED setup

NextWitness ==
    \/ toExtWitnessCall
    \/ fromExtWitnessCall
    \/ ToStatelessWitnessV1Call
    \/ FromStatelessWitnessV1Call
    \/ Return

SpecWitness == Init /\ [][NextWitness]_vars

\* C29: for every witness w, FromStatelessWitnessV1 applied to
\* ToStatelessWitnessV1(w) yields a witness with the same headers, the same
\* set of Codes and the same set of State nodes as w
C29_EngineRoundTrip ==
    pc = "converted" /\ call.op = "FromStatelessWitnessV1"
        => /\ ret.err = "nil"
           /\ ret.w.Headers = call.w.Headers
           /\ ret.w.Codes = call.w.Codes
           /\ ret.w.State = call.w.State
\* the headers do come back
EngineRoundTripHeaders ==
    pc = "converted" /\ call.op = "FromStatelessWitnessV1"
        => ret.err = "nil" /\ ret.w.Headers = call.w.Headers
\* of a non-empty set of codes or nodes the empty string alone comes back
EngineRoundTripEmptyStrings ==
    pc = "converted" /\ call.op = "FromStatelessWitnessV1"
        => /\ call.w.Codes # {} => ret.w.Codes = {<<>>}
           /\ call.w.State # {} => ret.w.State = {<<>>}

\* a is before b in byte order
LexLess(a, b) ==
    \E k \in 0 .. Len(a) :
        /\ k <= Len(b)
        /\ \A n \in 1 .. k : a[n] = b[n]
        /\ \/ k = Len(a) /\ k < Len(b)
           \/ k < Len(a) /\ k < Len(b) /\ a[k + 1] < b[k + 1]
\* the list holds every element of the set once, in ascending byte order
ListsAscending(list, set) ==
    /\ Len0(list) = Cardinality(set)
    /\ \A e \in set : \E i \in DOMAIN list : list[i] = e
    /\ \A i, j \in DOMAIN list : i < j => LexLess(list[i], list[j])

\* C30: toExtWitness lists every element of the Codes set and of the State
\* set exactly once, in ascending byte order, whatever the order in which
\* the maps are visited, and fromExtWitness(toExtWitness(w)) has the
\* Headers, the Codes set and the State set of w
C30_ExternalForm ==
    /\ pc = "called" /\ call.op = "toExtWitness"
        => /\ ret.ext.Headers = call.w.Headers
           /\ ListsAscending(ret.ext.Codes, call.w.Codes)
           /\ ListsAscending(ret.ext.State, call.w.State)
           /\ \A codes \in Enumerations(call.w.Codes), nodes \in Enumerations(call.w.State) :
                toExtWitness(call.w, codes, nodes) = ret.ext
    /\ pc = "converted" /\ call.op = "fromExtWitness"
        => /\ ret.w.Headers = call.w.Headers
           /\ ret.w.Codes = call.w.Codes
           /\ ret.w.State = call.w.State

\* a witness whose codes and nodes were visited in descending order came
\* back from its external form
C30_Witness ==
    /\ pc = "converted" /\ call.op = "fromExtWitness"
    /\ Cardinality(call.w.Codes) = MaxNodes
    /\ Cardinality(call.w.State) > 1
    /\ Len0(call.w.Headers) > 1
    /\ ret.w = call.w
\* the maps were visited in descending order
DescendingVisitWitness ==
    /\ pc = "called" /\ call.op = "toExtWitness"
    /\ Len0(call.codes) = MaxNodes
    /\ \A i, j \in DOMAIN call.codes : i < j => LexLess(call.codes[j], call.codes[i])
    /\ call.codes # ret.ext.Codes

====
